---- MODULE Spec2Model ----
(***************************************************************************)
(* Model of the Binance futures market-data decoder of faster-parser:      *)
(* the dispatcher binance_future_parser_t::parse, its field walkers, the   *)
(* byte-scan primitives and the numeric micro-parsers.                     *)
(*                                                                         *)
(* A buffer is a sequence of one-character strings.  A pointer into a      *)
(* buffer is its 0-based offset, so the byte under pointer p is buf[p+1];  *)
(* the null pointer is NULL.  An unsigned 64-bit integer is a tuple of     *)
(* four 16-bit limbs, least significant first, so that the arithmetic of   *)
(* the code keeps its width.                                               *)
(***************************************************************************)
EXTENDS Integers, Sequences, FiniteSets, TLC

VARIABLES
    raw,            \* the buffer of the last parse call
    now,            \* the reception timestamp of the last parse call
    result,         \* what the last parse call returned
    walker,         \* the walker the last parse call handed the buffer to
    emitted,        \* the listener calls made during the last parse call
    lookups,        \* the find_char lookups the last parse call made
    oob,            \* whether the last parse call read outside its buffer
    book_tickers,   \* MockListener::book_tickers
    agg_trades,     \* MockListener::agg_trades
    tickers,        \* MockListener::tickers
    ncalls          \* parse calls made so far

vars == <<raw, now, result, walker, emitted, lookups, oob,
          book_tickers, agg_trades, tickers, ncalls>>

NULL == -1

\* ------------------------------------------------------------------------
\* Bytes
\* ------------------------------------------------------------------------
DigitChars == <<"0", "1", "2", "3", "4", "5", "6", "7", "8", "9">>

IsDigit(c) == \E i \in 1..10 : DigitChars[i] = c

DigitVal(c) == (CHOOSE i \in 1..10 : DigitChars[i] = c) - 1

\* std::string_view: a window of size bytes at offset off of the buffer data.
\* past is the byte a read beyond the end of the buffer yields.
string_view(data, off, size, past) ==
    [data |-> data, off |-> off, size |-> size, past |-> past]

\* the byte under pointer p of the buffer behind the view
Deref(str, p) ==
    IF p >= 0 /\ p < Len(str.data) THEN str.data[p + 1] ELSE str.past

\* the bytes the view denotes
Bytes(str) ==
    [i \in 1..str.size |-> Deref(str, str.off + i - 1)]

\* ------------------------------------------------------------------------
\* 64-bit unsigned arithmetic on 16-bit limbs
\* ------------------------------------------------------------------------
Limb == 65536

U64Zero == <<0, 0, 0, 0>>

\* the 64-bit value of a natural number below 2^31
U64(n) == <<n % Limb, (n \div Limb) % Limb, 0, 0>>

\* (x * k + a) mod 2^64 on the limbs of x, for k <= 10^4 and a < 10^9
U64Limbs(x, k, a) ==
    LET t0 == x[1] * k + a
        t1 == x[2] * k + (t0 \div Limb)
        t2 == x[3] * k + (t1 \div Limb)
        t3 == x[4] * k + (t2 \div Limb)
    IN  <<t0 % Limb, t1 % Limb, t2 % Limb, t3 % Limb>>

\* (x * k + a) mod 2^64; the operands are taken once
U64MulAdd(x, k, a) ==
    CHOOSE r \in {U64Limbs(v, k, b) : v \in {x}, b \in {a}} : TRUE

\* result * 100000000ULL + d
U64Shift8Add(x, d) == U64MulAdd(U64MulAdd(x, 10000, 0), 10000, d)

\* result * 10 + d
U64Shift1Add(x, d) == U64MulAdd(x, 10, d)

\* ------------------------------------------------------------------------
\* Byte-scan primitives (scalar/utils_scalar.h)
\* ------------------------------------------------------------------------
RECURSIVE match_string(_, _, _)
match_string(buf, pattern, len) ==
    IF len = 0 THEN TRUE
    ELSE /\ buf[len] = pattern[len]
         /\ match_string(buf, pattern, len - 1)

\* find_char scanning from the start of the buffer instead of ptr
find_char_from_start(buf, ptr, end, target) ==
    IF \E p \in 0..(end - 1) : buf[p + 1] = target
    THEN CHOOSE p \in 0..(end - 1) :
             /\ buf[p + 1] = target
             /\ \A q \in 0..(p - 1) : buf[q + 1] # target
    ELSE NULL

\* "while (ptr < end) { if (*ptr == target) return ptr; ptr++; } return
\* nullptr": the loop stops at the first position of [ptr, end) that holds
\* target
find_char(buf, ptr, end, target) ==
    IF \E p \in ptr..(end - 1) : buf[p + 1] = target
    THEN CHOOSE p \in ptr..(end - 1) :
             /\ buf[p + 1] = target
             /\ \A q \in ptr..(p - 1) : buf[q + 1] # target
    ELSE NULL

\* ------------------------------------------------------------------------
\* find_char of the SIMD builds (avx2/utils_avx2.h, avx512/utils_avx512.h,
\* neon/utils_neon.h).  A vector compare of the width bytes at ptr with the
\* target gives a mask with one bit per byte, lowest bit for the first
\* byte; the mask is kept as the set of its one bits.
\* ------------------------------------------------------------------------
\* _mm256_movemask_epi8(_mm256_cmpeq_epi8(data, target_vec)) and its 16-
\* and 64-byte likes
CompareMask(buf, ptr, width, target) ==
    {i \in 0..(width - 1) : buf[ptr + i + 1] = target}

\* a counter of trailing zeros that takes the highest one bit of the mask
\* for the lowest
ctz_highest_bit(mask) == CHOOSE i \in mask : \A j \in mask : j <= i

\* __builtin_ctz / __builtin_ctzll of a non-zero mask
ctz(mask) == CHOOSE i \in mask : \A j \in mask : i <= j

\* The chunked scans: the stages of a variant in order, each a chunk width
\* and whether the stage is a while loop or a single if; after the last
\* stage the byte-at-a-time loop of the scalar variant.
RECURSIVE ChunkedFind(_, _, _, _, _, _)
ChunkedFind(buf, ptr, end, target, stages, i) ==
    IF i > Len(stages) THEN find_char(buf, ptr, end, target)
    ELSE IF ptr + stages[i].width <= end
    THEN IF CompareMask(buf, ptr, stages[i].width, target) # {}
         THEN ptr + ctz(CompareMask(buf, ptr, stages[i].width, target))
         ELSE ChunkedFind(buf, ptr + stages[i].width, end, target, stages,
                          IF stages[i].loop THEN i ELSE i + 1)
    ELSE ChunkedFind(buf, ptr, end, target, stages, i + 1)

avx2_find_char(buf, ptr, end, target) ==
    ChunkedFind(buf, ptr, end, target,
                <<[width |-> 32, loop |-> TRUE],
                  [width |-> 16, loop |-> FALSE]>>, 1)

avx512_find_char(buf, ptr, end, target) ==
    ChunkedFind(buf, ptr, end, target,
                <<[width |-> 64, loop |-> TRUE],
                  [width |-> 32, loop |-> FALSE],
                  [width |-> 16, loop |-> FALSE]>>, 1)

\* one 16-byte chunk of the NEON variant: the compare result is read as
\* two 64-bit halves, and a half that is not zero is searched byte by byte
NeonChunk(buf, ptr, target) ==
    IF CompareMask(buf, ptr, 8, target) # {}
    THEN find_char(buf, ptr, ptr + 8, target)
    ELSE IF CompareMask(buf, ptr + 8, 8, target) # {}
    THEN find_char(buf, ptr + 8, ptr + 16, target)
    ELSE NULL

RECURSIVE neon_find_char(_, _, _, _)
neon_find_char(buf, ptr, end, target) ==
    IF ptr + 16 <= end
    THEN IF NeonChunk(buf, ptr, target) # NULL
         THEN NeonChunk(buf, ptr, target)
         ELSE neon_find_char(buf, ptr + 16, end, target)
    ELSE find_char(buf, ptr, end, target)

\* ------------------------------------------------------------------------
\* Numeric micro-parsers (core/scalar/float_parser_scalar.cpp)
\* ------------------------------------------------------------------------
all_digits(str) ==
    \A i \in 0..(str.size - 1) : IsDigit(Deref(str, str.off + i))

parse_8_digits(str) ==
    LET d(i) == DigitVal(Deref(str, str.off + i))
    IN  d(0) * 10000000 + d(1) * 1000000 + d(2) * 100000 + d(3) * 10000
        + d(4) * 1000 + d(5) * 100 + d(6) * 10 + d(7) * 1

\* first loop of parse_float with the guard counting batches: fallback
\* after ten batches
RECURSIVE IntegerBatches_guard_counts_batches(_, _, _, _, _)
IntegerBatches_guard_counts_batches(str, p, end, integer_part, integer_digits) ==
    IF p + 8 <= end /\ all_digits(string_view(str.data, p, 8, str.past))
    THEN IF integer_digits >= 80
         THEN [p |-> p, integer_part |-> integer_part,
               integer_digits |-> integer_digits, fallback |-> TRUE]
         ELSE IntegerBatches_guard_counts_batches(str, p + 8, end,
                  U64Shift8Add(integer_part,
                      parse_8_digits(string_view(str.data, p, 8, str.past))),
                  integer_digits + 8)
    ELSE [p |-> p, integer_part |-> integer_part,
          integer_digits |-> integer_digits, fallback |-> FALSE]

\* first loop of parse_float: 8-digit batches of the integer part
RECURSIVE IntegerBatches(_, _, _, _, _)
IntegerBatches(str, p, end, integer_part, integer_digits) ==
    IF p + 8 <= end /\ all_digits(string_view(str.data, p, 8, str.past))
    THEN IF integer_digits >= 10
         THEN [p |-> p, integer_part |-> integer_part,
               integer_digits |-> integer_digits, fallback |-> TRUE]
         ELSE IntegerBatches(str, p + 8, end,
                  U64Shift8Add(integer_part,
                      parse_8_digits(string_view(str.data, p, 8, str.past))),
                  integer_digits + 8)
    ELSE [p |-> p, integer_part |-> integer_part,
          integer_digits |-> integer_digits, fallback |-> FALSE]

\* second loop of parse_float: the remaining integer digits one at a time
RECURSIVE IntegerTail(_, _, _, _, _)
IntegerTail(str, p, end, integer_part, integer_digits) ==
    IF p < end /\ IsDigit(Deref(str, p))
    THEN IntegerTail(str, p + 1, end,
             U64Shift1Add(integer_part, DigitVal(Deref(str, p))),
             integer_digits + 1)
    ELSE [p |-> p, integer_part |-> integer_part,
          integer_digits |-> integer_digits]

\* digit-at-a-time loop of the fractional part, at most 18 digits
RECURSIVE FractionTail(_, _, _, _, _)
FractionTail(str, p, end, fractional_part, fractional_digits) ==
    IF p < end /\ IsDigit(Deref(str, p)) /\ fractional_digits < 18
    THEN FractionTail(str, p + 1, end,
             U64Shift1Add(fractional_part, DigitVal(Deref(str, p))),
             fractional_digits + 1)
    ELSE [fractional_part |-> fractional_part,
          fractional_digits |-> fractional_digits]

\* The double parse_float returns, kept as the exact quantities it is
\* computed from: sign, integer accumulator, fractional accumulator and
\* fractional digit count (value = integer_part + fractional_part /
\* 10^fractional_digits), or the text handed to strtod on the fallback.
Double(fallback, negative, integer_part, fractional_part, fractional_digits, text) ==
    [fallback |-> fallback, negative |-> negative,
     integer_part |-> integer_part, fractional_part |-> fractional_part,
     fractional_digits |-> fractional_digits, text |-> text]

standard_parse(str) ==
    Double(TRUE, FALSE, U64Zero, U64Zero, 0, Bytes(str))

\* fractional part of parse_float, p just after the point: one 8-digit batch
\* when eight digits follow, else the digit-at-a-time loop
FloatFraction(str, p, end) ==
    IF p + 8 <= end /\ all_digits(string_view(str.data, p, 8, str.past))
    THEN [fractional_part |->
              U64(parse_8_digits(string_view(str.data, p, 8, str.past))),
          fractional_digits |-> 8]
    ELSE FractionTail(str, p, end, U64Zero, 0)

\* "result += fractional_part / powers_of_10[fractional_digits]"
FloatResult(negative, integer_part, fr) ==
    Double(FALSE, negative, integer_part,
           fr.fractional_part, fr.fractional_digits, <<>>)

\* parse_float from the end of the integer digits (it) on
FloatAfterInteger(str, end, negative, it) ==
    IF it.p >= end \/ Deref(str, it.p) # "."
    THEN Double(FALSE, negative, it.integer_part, U64Zero, 0, <<>>)
    ELSE FloatResult(negative, it.integer_part,
                     FloatFraction(str, it.p + 1, end))

\* parse_float from the end of the 8-digit batches (ib) on
FloatAfterBatches(str, end, negative, ib) ==
    IF ib.fallback THEN standard_parse(str)
    ELSE CHOOSE r \in
             {FloatAfterInteger(str, end, negative, it) :
                  it \in {IntegerTail(str, ib.p, end, ib.integer_part,
                                      ib.integer_digits)}} : TRUE

\* parse_float from the first byte after the sign (p) on
FloatAfterSign(str, end, negative, p) ==
    CHOOSE r \in
        {FloatAfterBatches(str, end, negative, ib) :
             ib \in {IntegerBatches(str, p, end, U64Zero, 0)}} : TRUE

\* parse_float negating on either sign character
parse_float_plus_negates(str) ==
    FloatAfterSign(str, str.off + str.size,
                   Deref(str, str.off) = "-" \/ Deref(str, str.off) = "+",
                   IF Deref(str, str.off) = "-" \/ Deref(str, str.off) = "+"
                   THEN str.off + 1 ELSE str.off)

parse_float(str) ==
    FloatAfterSign(str, str.off + str.size, Deref(str, str.off) = "-",
                   IF Deref(str, str.off) = "-" \/ Deref(str, str.off) = "+"
                   THEN str.off + 1 ELSE str.off)

RECURSIVE Uint64Batches(_, _, _, _)
Uint64Batches(str, ptr, end, res) ==
    IF ptr + 8 <= end /\ all_digits(string_view(str.data, ptr, 8, str.past))
    THEN Uint64Batches(str, ptr + 8, end,
             U64Shift8Add(res,
                 parse_8_digits(string_view(str.data, ptr, 8, str.past))))
    ELSE [ptr |-> ptr, result |-> res]

RECURSIVE Uint64Tail(_, _, _, _)
Uint64Tail(str, ptr, end, res) ==
    IF ptr < end /\ IsDigit(Deref(str, ptr))
    THEN Uint64Tail(str, ptr + 1, end,
             U64Shift1Add(res, DigitVal(Deref(str, ptr))))
    ELSE res

\* parse_uint64 accumulating in a 32-bit result
parse_uint64_32_bit(str) ==
    LET end == str.off + str.size
        b == Uint64Batches(str, str.off, end, U64Zero)
    IN  <<Uint64Tail(str, b.ptr, end, b.result)[1],
          Uint64Tail(str, b.ptr, end, b.result)[2], 0, 0>>

parse_uint64(str) ==
    LET end == str.off + str.size
        b == Uint64Batches(str, str.off, end, U64Zero)
    IN  Uint64Tail(str, b.ptr, end, b.result)

\* ------------------------------------------------------------------------
\* Listener calls and walker outcomes (binance/future.h)
\* ------------------------------------------------------------------------
on_book_ticker(ticker) == [handler |-> "on_book_ticker", arg |-> ticker]

on_trade(trade) == [handler |-> "on_trade", arg |-> trade]

on_ticker(ticker) == [handler |-> "on_ticker", arg |-> ticker]

\* "return false" of a single-object walker after its n-th find_char missed:
\* the listener has not been called
WalkerFail(n) == [ok |-> FALSE, calls |-> <<>>, lookups |-> n, oob |-> FALSE]

\* a walker's return with the listener calls it made on the way, the number
\* of find_char lookups it made and whether it read outside the buffer
WalkerDone(calls, n, outside) ==
    [ok |-> TRUE, calls |-> calls, lookups |-> n, oob |-> outside]

\* "return nullptr" of parse_single_ticker after its n-th find_char missed
TickerFail(n) == [ptr |-> NULL, ticker |-> <<>>, lookups |-> n]

\* The walkers are straight-line code: one "locate key, skip, locate
\* terminator, decode, advance" step per field.  A step is a row
\*   key      the byte find_char looks for first
\*   skip     what is added to the pointer to reach the value
\*   term     the byte find_char looks for next, from the value on
\*   kind     how the span between them is decoded
\*   field    the variable or record field the value is assigned to
\*   advance  1 where a ptr++ follows, 0 where the next lookup starts at
\*            the terminator
\* and a walker runs its rows in order.

\* a step taking the symbol view from the opening quote on
FieldValue_symbol_from_quote(kind, buf, value_start, ptr, past) ==
    CASE kind = "uint64" ->
             parse_uint64(string_view(buf, value_start, ptr - value_start, past))
      [] kind = "float" ->
             parse_float(string_view(buf, value_start, ptr - value_start, past))
      [] kind = "symbol" ->
             [off |-> value_start - 1, size |-> ptr - value_start + 1]

\* the value a step assigns: parse_uint64 or parse_float of the span, or the
\* span itself for the symbol view
FieldValue(kind, buf, value_start, ptr, past) ==
    CASE kind = "uint64" ->
             parse_uint64(string_view(buf, value_start, ptr - value_start, past))
      [] kind = "float" ->
             parse_float(string_view(buf, value_start, ptr - value_start, past))
      [] kind = "symbol" -> [off |-> value_start, size |-> ptr - value_start]

\* the steps of a walker from row i on; vals holds the values assigned so
\* far and n counts the find_char lookups made.  A missed lookup ends the
\* walk at once.
RECURSIVE WalkFields(_, _, _, _, _, _, _, _)
WalkFields(buf, ptr, end, past, rows, i, vals, n) ==
    IF i > Len(rows)
    THEN [ptr |-> ptr, vals |-> vals, lookups |-> n]
    ELSE
    LET k == find_char(buf, ptr, end, rows[i].key)
    IN  IF k = NULL THEN [ptr |-> NULL, vals |-> vals, lookups |-> n + 1]
        ELSE
        LET t == find_char(buf, k + rows[i].skip, end, rows[i].term)
        IN  IF t = NULL THEN [ptr |-> NULL, vals |-> vals, lookups |-> n + 2]
            ELSE WalkFields(buf, t + rows[i].advance, end, past, rows, i + 1,
                     IF rows[i].kind = "none" THEN vals
                     ELSE (rows[i].field :>
                              FieldValue(rows[i].kind, buf,
                                         k + rows[i].skip, t, past)) @@ vals,
                     n + 2)

\* process_book_ticker taking the exchange timestamp from the T field
BookTickerFields_timestamp_from_T ==
    <<[key |-> "u", skip |-> 3, term |-> ",", kind |-> "uint64", field |-> "update_id", advance |-> 0],
      [key |-> "s", skip |-> 4, term |-> "\"", kind |-> "symbol", field |-> "symbol", advance |-> 1],
      [key |-> "b", skip |-> 4, term |-> "\"", kind |-> "float", field |-> "bid_price", advance |-> 1],
      [key |-> "B", skip |-> 4, term |-> "\"", kind |-> "float", field |-> "bid_volume", advance |-> 1],
      [key |-> "a", skip |-> 4, term |-> "\"", kind |-> "float", field |-> "ask_price", advance |-> 1],
      [key |-> "A", skip |-> 4, term |-> "\"", kind |-> "float", field |-> "ask_volume", advance |-> 1],
      [key |-> "T", skip |-> 3, term |-> ",", kind |-> "uint64", field |-> "exchange_timestamp", advance |-> 0]>>

BookTickerFields ==
    <<[key |-> "u", skip |-> 3, term |-> ",", kind |-> "uint64", field |-> "update_id", advance |-> 0],
      [key |-> "s", skip |-> 4, term |-> "\"", kind |-> "symbol", field |-> "symbol", advance |-> 1],
      [key |-> "b", skip |-> 4, term |-> "\"", kind |-> "float", field |-> "bid_price", advance |-> 1],
      [key |-> "B", skip |-> 4, term |-> "\"", kind |-> "float", field |-> "bid_volume", advance |-> 1],
      [key |-> "a", skip |-> 4, term |-> "\"", kind |-> "float", field |-> "ask_price", advance |-> 1],
      [key |-> "A", skip |-> 4, term |-> "\"", kind |-> "float", field |-> "ask_volume", advance |-> 1],
      [key |-> "T", skip |-> 0, term |-> ",", kind |-> "none", field |-> "", advance |-> 1],
      [key |-> "E", skip |-> 3, term |-> "}", kind |-> "uint64", field |-> "exchange_timestamp", advance |-> 0]>>

\* a book_ticker_t whose ask side takes its sequence from the E field
book_ticker_t_ask_sequence_from_E(tnow, vals) ==
    [time |-> tnow, symbol |-> vals["symbol"],
     exchange_timestamp |-> vals["exchange_timestamp"],
     bid |-> [price |-> vals["bid_price"], volume |-> vals["bid_volume"],
              sequence |-> vals["update_id"]],
     ask |-> [price |-> vals["ask_price"], volume |-> vals["ask_volume"],
              sequence |-> vals["exchange_timestamp"]]]

\* the book_ticker_t the walker fills in: update_id is the sequence of both
\* sides
book_ticker_t(tnow, vals) ==
    [time |-> tnow, symbol |-> vals["symbol"],
     exchange_timestamp |-> vals["exchange_timestamp"],
     bid |-> [price |-> vals["bid_price"], volume |-> vals["bid_volume"],
              sequence |-> vals["update_id"]],
     ask |-> [price |-> vals["ask_price"], volume |-> vals["ask_volume"],
              sequence |-> vals["update_id"]]]

process_book_ticker(tnow, buf, past) ==
    LET w == WalkFields(buf, 0, Len(buf), past, BookTickerFields, 1,
                        <<>>, 0)
    IN  IF w.ptr = NULL THEN WalkerFail(w.lookups)
        ELSE WalkerDone(<<on_book_ticker(book_ticker_t(tnow, w.vals))>>,
                        w.lookups, FALSE)

\* process_agg_trade skipping 4 bytes, as for a quoted value, at the a key
AggTradeFields_id_skip_4 ==
    <<[key |-> "E", skip |-> 3, term |-> ",", kind |-> "uint64", field |-> "event_time", advance |-> 0],
      [key |-> "s", skip |-> 4, term |-> "\"", kind |-> "symbol", field |-> "symbol", advance |-> 1],
      [key |-> "a", skip |-> 4, term |-> ",", kind |-> "uint64", field |-> "agg_trade_id", advance |-> 0],
      [key |-> "p", skip |-> 4, term |-> "\"", kind |-> "float", field |-> "price", advance |-> 1],
      [key |-> "q", skip |-> 4, term |-> "\"", kind |-> "float", field |-> "quantity", advance |-> 1],
      [key |-> "f", skip |-> 3, term |-> ",", kind |-> "uint64", field |-> "first_trade_id", advance |-> 0],
      [key |-> "l", skip |-> 3, term |-> ",", kind |-> "uint64", field |-> "last_trade_id", advance |-> 0],
      [key |-> "T", skip |-> 3, term |-> ",", kind |-> "uint64", field |-> "trade_time", advance |-> 0]>>

AggTradeFields ==
    <<[key |-> "E", skip |-> 3, term |-> ",", kind |-> "uint64", field |-> "event_time", advance |-> 0],
      [key |-> "s", skip |-> 4, term |-> "\"", kind |-> "symbol", field |-> "symbol", advance |-> 1],
      [key |-> "a", skip |-> 3, term |-> ",", kind |-> "uint64", field |-> "agg_trade_id", advance |-> 0],
      [key |-> "p", skip |-> 4, term |-> "\"", kind |-> "float", field |-> "price", advance |-> 1],
      [key |-> "q", skip |-> 4, term |-> "\"", kind |-> "float", field |-> "quantity", advance |-> 1],
      [key |-> "f", skip |-> 3, term |-> ",", kind |-> "uint64", field |-> "first_trade_id", advance |-> 0],
      [key |-> "l", skip |-> 3, term |-> ",", kind |-> "uint64", field |-> "last_trade_id", advance |-> 0],
      [key |-> "T", skip |-> 3, term |-> ",", kind |-> "uint64", field |-> "trade_time", advance |-> 0]>>

\* the agg_trade_t the walker fills in
agg_trade_t(tnow, vals, is_buyer_maker) ==
    [time |-> tnow, symbol |-> vals["symbol"],
     event_time |-> vals["event_time"],
     agg_trade_id |-> vals["agg_trade_id"],
     price |-> vals["price"], quantity |-> vals["quantity"],
     first_trade_id |-> vals["first_trade_id"],
     last_trade_id |-> vals["last_trade_id"],
     trade_time |-> vals["trade_time"],
     is_buyer_maker |-> is_buyer_maker]

\* the m step comparing the whole literal, as the code left in comments at
\* that place does: true, false, or a rejection
AggTradeMaker_checks_literal(tnow, buf, end, past, w, k) ==
    IF k = NULL THEN WalkerFail(w.lookups + 1)
    ELSE IF k + 3 + 4 <= end /\ SubSeq(buf, k + 4, k + 7) = <<"t", "r", "u", "e">>
    THEN WalkerDone(<<on_trade(agg_trade_t(tnow, w.vals, TRUE))>>,
                    w.lookups + 1, FALSE)
    ELSE IF k + 3 + 5 <= end
            /\ SubSeq(buf, k + 4, k + 8) = <<"f", "a", "l", "s", "e">>
    THEN WalkerDone(<<on_trade(agg_trade_t(tnow, w.vals, FALSE))>>,
                    w.lookups + 1, FALSE)
    ELSE WalkerFail(w.lookups + 1)

\* the m step of process_agg_trade, after the eight decoded fields (w):
\* "ptr += 3; is_buyer_maker = (*ptr == 't')" with no check of ptr against
\* end
AggTradeMaker(tnow, buf, end, past, w, k) ==
    IF k = NULL THEN WalkerFail(w.lookups + 1)
    ELSE WalkerDone(
             <<on_trade(agg_trade_t(tnow, w.vals,
                   Deref(string_view(buf, 0, end, past), k + 3) = "t"))>>,
             w.lookups + 1, k + 3 >= end)

process_agg_trade(tnow, buf, past) ==
    LET w == WalkFields(buf, 0, Len(buf), past, AggTradeFields, 1, <<>>, 0)
    IN  IF w.ptr = NULL THEN WalkerFail(w.lookups)
        ELSE AggTradeMaker(tnow, buf, Len(buf), past, w,
                           find_char(buf, w.ptr, Len(buf), "m"))

\* parse_single_ticker scanning for q where the Q key is due
TickerFields_q_for_Q ==
    <<[key |-> "E", skip |-> 3, term |-> ",", kind |-> "uint64", field |-> "event_time", advance |-> 0],
      [key |-> "s", skip |-> 4, term |-> "\"", kind |-> "symbol", field |-> "symbol", advance |-> 1],
      [key |-> "p", skip |-> 4, term |-> "\"", kind |-> "float", field |-> "price_change", advance |-> 1],
      [key |-> "P", skip |-> 4, term |-> "\"", kind |-> "float", field |-> "price_change_percent", advance |-> 1],
      [key |-> "w", skip |-> 4, term |-> "\"", kind |-> "float", field |-> "weighted_avg_price", advance |-> 1],
      [key |-> "c", skip |-> 4, term |-> "\"", kind |-> "float", field |-> "last_price", advance |-> 1],
      [key |-> "q", skip |-> 4, term |-> "\"", kind |-> "float", field |-> "last_quantity", advance |-> 1],
      [key |-> "o", skip |-> 4, term |-> "\"", kind |-> "float", field |-> "open_price", advance |-> 1],
      [key |-> "h", skip |-> 4, term |-> "\"", kind |-> "float", field |-> "high_price", advance |-> 1],
      [key |-> "l", skip |-> 4, term |-> "\"", kind |-> "float", field |-> "low_price", advance |-> 1],
      [key |-> "v", skip |-> 4, term |-> "\"", kind |-> "float", field |-> "total_traded_base_volume", advance |-> 1],
      [key |-> "q", skip |-> 4, term |-> "\"", kind |-> "float", field |-> "total_traded_quote_volume", advance |-> 1],
      [key |-> "O", skip |-> 3, term |-> ",", kind |-> "uint64", field |-> "statistics_open_time", advance |-> 0],
      [key |-> "C", skip |-> 3, term |-> ",", kind |-> "uint64", field |-> "statistics_close_time", advance |-> 0],
      [key |-> "F", skip |-> 3, term |-> ",", kind |-> "uint64", field |-> "first_trade_id", advance |-> 0],
      [key |-> "L", skip |-> 3, term |-> ",", kind |-> "uint64", field |-> "last_trade_id", advance |-> 0],
      [key |-> "n", skip |-> 3, term |-> "}", kind |-> "uint64", field |-> "total_trades", advance |-> 0]>>

TickerFields ==
    <<[key |-> "E", skip |-> 3, term |-> ",", kind |-> "uint64", field |-> "event_time", advance |-> 0],
      [key |-> "s", skip |-> 4, term |-> "\"", kind |-> "symbol", field |-> "symbol", advance |-> 1],
      [key |-> "p", skip |-> 4, term |-> "\"", kind |-> "float", field |-> "price_change", advance |-> 1],
      [key |-> "P", skip |-> 4, term |-> "\"", kind |-> "float", field |-> "price_change_percent", advance |-> 1],
      [key |-> "w", skip |-> 4, term |-> "\"", kind |-> "float", field |-> "weighted_avg_price", advance |-> 1],
      [key |-> "c", skip |-> 4, term |-> "\"", kind |-> "float", field |-> "last_price", advance |-> 1],
      [key |-> "Q", skip |-> 4, term |-> "\"", kind |-> "float", field |-> "last_quantity", advance |-> 1],
      [key |-> "o", skip |-> 4, term |-> "\"", kind |-> "float", field |-> "open_price", advance |-> 1],
      [key |-> "h", skip |-> 4, term |-> "\"", kind |-> "float", field |-> "high_price", advance |-> 1],
      [key |-> "l", skip |-> 4, term |-> "\"", kind |-> "float", field |-> "low_price", advance |-> 1],
      [key |-> "v", skip |-> 4, term |-> "\"", kind |-> "float", field |-> "total_traded_base_volume", advance |-> 1],
      [key |-> "q", skip |-> 4, term |-> "\"", kind |-> "float", field |-> "total_traded_quote_volume", advance |-> 1],
      [key |-> "O", skip |-> 3, term |-> ",", kind |-> "uint64", field |-> "statistics_open_time", advance |-> 0],
      [key |-> "C", skip |-> 3, term |-> ",", kind |-> "uint64", field |-> "statistics_close_time", advance |-> 0],
      [key |-> "F", skip |-> 3, term |-> ",", kind |-> "uint64", field |-> "first_trade_id", advance |-> 0],
      [key |-> "L", skip |-> 3, term |-> ",", kind |-> "uint64", field |-> "last_trade_id", advance |-> 0],
      [key |-> "n", skip |-> 3, term |-> "}", kind |-> "uint64", field |-> "total_trades", advance |-> 0]>>

\* the ticker_t the walker fills in
ticker_t(tnow, vals) ==
    [time |-> tnow, symbol |-> vals["symbol"],
     event_time |-> vals["event_time"],
     price_change |-> vals["price_change"],
     price_change_percent |-> vals["price_change_percent"],
     weighted_avg_price |-> vals["weighted_avg_price"],
     last_price |-> vals["last_price"],
     last_quantity |-> vals["last_quantity"],
     open_price |-> vals["open_price"],
     high_price |-> vals["high_price"],
     low_price |-> vals["low_price"],
     total_traded_base_volume |-> vals["total_traded_base_volume"],
     total_traded_quote_volume |-> vals["total_traded_quote_volume"],
     statistics_open_time |-> vals["statistics_open_time"],
     statistics_close_time |-> vals["statistics_close_time"],
     first_trade_id |-> vals["first_trade_id"],
     last_trade_id |-> vals["last_trade_id"],
     total_trades |-> vals["total_trades"]]

\* parse_single_ticker returning the position of the closing brace itself
parse_single_ticker_returns_brace(buf, ptr, end, tnow, past) ==
    LET w == WalkFields(buf, ptr, end, past, TickerFields, 1, <<>>, 0)
    IN  IF w.ptr = NULL THEN TickerFail(w.lookups)
        ELSE [ptr |-> w.ptr, ticker |-> ticker_t(tnow, w.vals),
              lookups |-> w.lookups]

parse_single_ticker(buf, ptr, end, tnow, past) ==
    LET w == WalkFields(buf, ptr, end, past, TickerFields, 1, <<>>, 0)
    IN  IF w.ptr = NULL THEN TickerFail(w.lookups)
        ELSE [ptr |-> w.ptr + 1, ticker |-> ticker_t(tnow, w.vals),
              lookups |-> w.lookups]

\* process_ticker delivering the record twice
process_ticker_twice(tnow, buf, past) ==
    LET res == parse_single_ticker(buf, 0, Len(buf), tnow, past)
    IN  IF res.ptr = NULL THEN WalkerFail(res.lookups)
        ELSE WalkerDone(<<on_ticker(res.ticker), on_ticker(res.ticker)>>,
                        res.lookups, FALSE)

\* process_ticker calling the listener before it looks at the result
process_ticker_calls_before_check(tnow, buf, past) ==
    LET res == parse_single_ticker(buf, 0, Len(buf), tnow, past)
    IN  IF res.ptr = NULL
        THEN [ok |-> FALSE, calls |-> <<on_ticker(res.ticker)>>,
              lookups |-> res.lookups, oob |-> FALSE]
        ELSE WalkerDone(<<on_ticker(res.ticker)>>, res.lookups, FALSE)

process_ticker(tnow, buf, past) ==
    LET res == parse_single_ticker(buf, 0, Len(buf), tnow, past)
    IN  IF res.ptr = NULL THEN WalkerFail(res.lookups)
        ELSE WalkerDone(<<on_ticker(res.ticker)>>, res.lookups, FALSE)

\* inner loop of process_ticker_array: skip whitespace and commas
RECURSIVE SkipSeparators(_, _, _)
SkipSeparators(buf, ptr, end) ==
    IF ptr < end /\ buf[ptr + 1] \in {" ", ",", "\n", "\r", "\t"}
    THEN SkipSeparators(buf, ptr + 1, end)
    ELSE ptr

\* the outer loop of process_ticker_array delivering each record ahead of
\* the ones delivered before it
RECURSIVE TickerArrayLoop_newest_first(_, _, _, _, _, _, _)
TickerArrayLoop_newest_first(buf, ptr, end, tnow, past, calls, n) ==
    IF ~(ptr < end) THEN WalkerDone(calls, n, FALSE)
    ELSE
    LET q == SkipSeparators(buf, ptr, end)
    IN  IF q >= end \/ buf[q + 1] = "]" THEN WalkerDone(calls, n, FALSE)
        ELSE IF buf[q + 1] # "{"
        THEN [ok |-> FALSE, calls |-> calls, lookups |-> n, oob |-> FALSE]
        ELSE
        LET res == parse_single_ticker(buf, q, end, tnow, past)
        IN  IF res.ptr = NULL
            THEN [ok |-> FALSE, calls |-> calls,
                  lookups |-> n + res.lookups, oob |-> FALSE]
            ELSE TickerArrayLoop_newest_first(buf, res.ptr, end, tnow, past,
                     <<on_ticker(res.ticker)>> \o calls, n + res.lookups)

\* the outer loop of process_ticker_array handing the records to the
\* listener only once the whole array is decoded
RECURSIVE TickerArrayLoop_deliver_at_end(_, _, _, _, _, _, _)
TickerArrayLoop_deliver_at_end(buf, ptr, end, tnow, past, calls, n) ==
    IF ~(ptr < end) THEN WalkerDone(calls, n, FALSE)
    ELSE
    LET q == SkipSeparators(buf, ptr, end)
    IN  IF q >= end \/ buf[q + 1] = "]" THEN WalkerDone(calls, n, FALSE)
        ELSE IF buf[q + 1] # "{"
        THEN [ok |-> FALSE, calls |-> <<>>, lookups |-> n, oob |-> FALSE]
        ELSE
        LET res == parse_single_ticker(buf, q, end, tnow, past)
        IN  IF res.ptr = NULL
            THEN [ok |-> FALSE, calls |-> <<>>,
                  lookups |-> n + res.lookups, oob |-> FALSE]
            ELSE TickerArrayLoop_deliver_at_end(buf, res.ptr, end, tnow, past,
                     Append(calls, on_ticker(res.ticker)), n + res.lookups)

\* outer loop of process_ticker_array; calls are the on_ticker calls made
\* so far, n the find_char lookups made so far
RECURSIVE TickerArrayLoop(_, _, _, _, _, _, _)
TickerArrayLoop(buf, ptr, end, tnow, past, calls, n) ==
    IF ~(ptr < end) THEN WalkerDone(calls, n, FALSE)
    ELSE
    LET q == SkipSeparators(buf, ptr, end)
    IN  IF q >= end \/ buf[q + 1] = "]" THEN WalkerDone(calls, n, FALSE)
        ELSE IF buf[q + 1] # "{"
        THEN [ok |-> FALSE, calls |-> calls, lookups |-> n, oob |-> FALSE]
        ELSE
        LET res == parse_single_ticker(buf, q, end, tnow, past)
        IN  IF res.ptr = NULL
            THEN [ok |-> FALSE, calls |-> calls,
                  lookups |-> n + res.lookups, oob |-> FALSE]
            ELSE TickerArrayLoop(buf, res.ptr, end, tnow, past,
                     Append(calls, on_ticker(res.ticker)), n + res.lookups)

process_ticker_array(tnow, buf, past) ==
    LET end == Len(buf)
        ptr == find_char(buf, 0, end, "[")
    IN  IF ptr = NULL THEN WalkerFail(1)
        ELSE TickerArrayLoop(buf, ptr + 1, end, tnow, past, <<>>, 1)

\* the literal patterns of parse; only their first 16 bytes are compared
PatternBookTicker ==
    <<"{", "\"", "e", "\"", ":", "\"", "b", "o", "o", "k", "T", "i",
      "c", "k", "e", "r">>

PatternAggTrade ==
    <<"{", "\"", "e", "\"", ":", "\"", "a", "g", "g", "T", "r", "a",
      "d", "e", "\"", ",">>

Pattern24hrTicker ==
    <<"{", "\"", "e", "\"", ":", "\"", "2", "4", "h", "r", "T", "i",
      "c", "k", "e", "r">>

PatternTickerArray ==
    <<"[", "{", "\"", "e", "\"", ":", "\"", "2", "4", "h", "r", "T",
      "i", "c", "k", "e", "r">>

MinSize == 20

PatternLen == 16

\* the outcome of one parse call: the returned flag, the listener calls made
\* before it returned, and the walker the dispatcher handed the message to
Routed(name, res) ==
    [ok |-> res.ok, calls |-> res.calls, walker |-> name,
     lookups |-> res.lookups, oob |-> res.oob]

\* parse handing every unclassified message to the array walker
parse_default_array(tnow, buf, past) ==
    IF Len(buf) < MinSize
    THEN [ok |-> FALSE, calls |-> <<>>, walker |-> "none",
          lookups |-> 0, oob |-> FALSE]
    ELSE IF match_string(buf, PatternBookTicker, PatternLen)
    THEN Routed("process_book_ticker", process_book_ticker(tnow, buf, past))
    ELSE IF match_string(buf, PatternAggTrade, PatternLen)
    THEN Routed("process_agg_trade", process_agg_trade(tnow, buf, past))
    ELSE IF match_string(buf, Pattern24hrTicker, PatternLen)
    THEN Routed("process_ticker", process_ticker(tnow, buf, past))
    ELSE Routed("process_ticker_array", process_ticker_array(tnow, buf, past))

\* parse guarding only the 16 bytes the patterns compare
parse_min_size_16(tnow, buf, past) ==
    IF Len(buf) < PatternLen
    THEN [ok |-> FALSE, calls |-> <<>>, walker |-> "none",
          lookups |-> 0, oob |-> FALSE]
    ELSE IF match_string(buf, PatternBookTicker, PatternLen)
    THEN Routed("process_book_ticker", process_book_ticker(tnow, buf, past))
    ELSE IF match_string(buf, PatternAggTrade, PatternLen)
    THEN Routed("process_agg_trade", process_agg_trade(tnow, buf, past))
    ELSE IF match_string(buf, Pattern24hrTicker, PatternLen)
    THEN Routed("process_ticker", process_ticker(tnow, buf, past))
    ELSE IF match_string(buf, PatternTickerArray, PatternLen)
    THEN Routed("process_ticker_array", process_ticker_array(tnow, buf, past))
    ELSE [ok |-> FALSE, calls |-> <<>>, walker |-> "none",
          lookups |-> 0, oob |-> FALSE]

\* parse with the walkers of the first two patterns exchanged: a bookTicker
\* message goes to process_agg_trade and an aggTrade message to
\* process_book_ticker
parse_book_agg_walkers_swapped(tnow, buf, past) ==
    IF Len(buf) < MinSize
    THEN [ok |-> FALSE, calls |-> <<>>, walker |-> "none",
          lookups |-> 0, oob |-> FALSE]
    ELSE IF match_string(buf, PatternBookTicker, PatternLen)
    THEN Routed("process_agg_trade", process_agg_trade(tnow, buf, past))
    ELSE IF match_string(buf, PatternAggTrade, PatternLen)
    THEN Routed("process_book_ticker", process_book_ticker(tnow, buf, past))
    ELSE IF match_string(buf, Pattern24hrTicker, PatternLen)
    THEN Routed("process_ticker", process_ticker(tnow, buf, past))
    ELSE IF match_string(buf, PatternTickerArray, PatternLen)
    THEN Routed("process_ticker_array", process_ticker_array(tnow, buf, past))
    ELSE [ok |-> FALSE, calls |-> <<>>, walker |-> "none",
          lookups |-> 0, oob |-> FALSE]

parse(tnow, buf, past) ==
    IF Len(buf) < MinSize
    THEN [ok |-> FALSE, calls |-> <<>>, walker |-> "none",
          lookups |-> 0, oob |-> FALSE]
    ELSE IF match_string(buf, PatternBookTicker, PatternLen)
    THEN Routed("process_book_ticker", process_book_ticker(tnow, buf, past))
    ELSE IF match_string(buf, PatternAggTrade, PatternLen)
    THEN Routed("process_agg_trade", process_agg_trade(tnow, buf, past))
    ELSE IF match_string(buf, Pattern24hrTicker, PatternLen)
    THEN Routed("process_ticker", process_ticker(tnow, buf, past))
    ELSE IF match_string(buf, PatternTickerArray, PatternLen)
    THEN Routed("process_ticker_array", process_ticker_array(tnow, buf, past))
    ELSE [ok |-> FALSE, calls |-> <<>>, walker |-> "none",
          lookups |-> 0, oob |-> FALSE]

\* match_string of the SIMD builds for len = 16: both operands are loaded
\* as 16-byte vectors and compared bytewise; the result is "mask == 0xFFFF"
\* (NEON: the minimum of the compare lanes is 0xFF).  The mask is kept as
\* the set of its one bits.
simd_match_string(str, pattern, len) ==
    {i \in 0..(len - 1) : Deref(str, str.off + i) = pattern[i + 1]}
        = 0..(len - 1)

\* the offsets from ptr a match_string call of len bytes loads
MatchLoads(len) == 0..(len - 1)

ParsePatterns ==
    <<PatternBookTicker, PatternAggTrade, Pattern24hrTicker, PatternTickerArray>>

\* the match_string calls of parse with the size test left out
RECURSIVE MatchCallsFrom(_, _, _)
MatchCallsFrom(buf, past, i) ==
    IF i > Len(ParsePatterns) THEN <<>>
    ELSE LET m == simd_match_string(string_view(buf, 0, Len(buf), past),
                                    ParsePatterns[i], PatternLen)
         IN  <<[ptr |-> 0, pattern |-> ParsePatterns[i], len |-> PatternLen,
                matched |-> m]>>
             \o (IF m THEN <<>> ELSE MatchCallsFrom(buf, past, i + 1))

ParseMatchCalls_unguarded(buf, past) == MatchCallsFrom(buf, past, 1)

\* the match_string calls parse makes on buf, in order: none below MinSize
\* bytes, else one per pattern up to the first that matches
ParseMatchCalls(buf, past) ==
    IF Len(buf) < MinSize THEN <<>> ELSE MatchCallsFrom(buf, past, 1)

\* ------------------------------------------------------------------------
\* Wire messages.  A message is built from the texts of its fields, in the
\* wire order of its type (tests/faster_parser/binance/future_tests.cpp).
\* ------------------------------------------------------------------------
Key(k) == <<"\"", k, "\"", ":">>

Quoted(v) == <<"\"">> \o v \o <<"\"">>

BookTickerMessage(f) ==
    <<"{">> \o Key("e") \o Quoted(<<"b", "o", "o", "k", "T", "i", "c", "k", "e", "r">>)
    \o <<",">> \o Key("u") \o f.u
    \o <<",">> \o Key("s") \o Quoted(f.s)
    \o <<",">> \o Key("b") \o Quoted(f.b)
    \o <<",">> \o Key("B") \o Quoted(f.B)
    \o <<",">> \o Key("a") \o Quoted(f.a)
    \o <<",">> \o Key("A") \o Quoted(f.A)
    \o <<",">> \o Key("T") \o f.T
    \o <<",">> \o Key("E") \o f.E
    \o <<"}">>

AggTradeMessage(f) ==
    <<"{">> \o Key("e") \o Quoted(<<"a", "g", "g", "T", "r", "a", "d", "e">>)
    \o <<",">> \o Key("E") \o f.E
    \o <<",">> \o Key("s") \o Quoted(f.s)
    \o <<",">> \o Key("a") \o f.a
    \o <<",">> \o Key("p") \o Quoted(f.p)
    \o <<",">> \o Key("q") \o Quoted(f.q)
    \o <<",">> \o Key("f") \o f.f
    \o <<",">> \o Key("l") \o f.l
    \o <<",">> \o Key("T") \o f.T
    \o <<",">> \o Key("m") \o f.m
    \o <<"}">>

TickerMessage(f) ==
    <<"{">> \o Key("e") \o Quoted(<<"2", "4", "h", "r", "T", "i", "c", "k", "e", "r">>)
    \o <<",">> \o Key("E") \o f.E
    \o <<",">> \o Key("s") \o Quoted(f.s)
    \o <<",">> \o Key("p") \o Quoted(f.p)
    \o <<",">> \o Key("P") \o Quoted(f.P)
    \o <<",">> \o Key("w") \o Quoted(f.w)
    \o <<",">> \o Key("c") \o Quoted(f.c)
    \o <<",">> \o Key("Q") \o Quoted(f.Q)
    \o <<",">> \o Key("o") \o Quoted(f.o)
    \o <<",">> \o Key("h") \o Quoted(f.h)
    \o <<",">> \o Key("l") \o Quoted(f.l)
    \o <<",">> \o Key("v") \o Quoted(f.v)
    \o <<",">> \o Key("q") \o Quoted(f.q)
    \o <<",">> \o Key("O") \o f.O
    \o <<",">> \o Key("C") \o f.C
    \o <<",">> \o Key("F") \o f.F
    \o <<",">> \o Key("L") \o f.L
    \o <<",">> \o Key("n") \o f.n
    \o <<"}">>

\* [obj,obj,...]
RECURSIVE TickerArrayBody(_)
TickerArrayBody(objs) ==
    IF objs = <<>> THEN <<>>
    ELSE IF Len(objs) = 1 THEN objs[1]
    ELSE objs[1] \o <<",">> \o TickerArrayBody(Tail(objs))

TickerArrayMessage(objs) == <<"[">> \o TickerArrayBody(objs) \o <<"]">>

\* decimal text of a natural number
RECURSIVE ToDigits(_)
ToDigits(n) ==
    IF n < 10 THEN <<DigitChars[n + 1]>>
    ELSE ToDigits(n \div 10) \o <<DigitChars[(n % 10) + 1]>>

\* value of a digit text, most significant digit first
RECURSIVE DigitsValue(_)
DigitsValue(ds) ==
    IF ds = <<>> THEN 0
    ELSE DigitsValue(SubSeq(ds, 1, Len(ds) - 1)) * 10
         + DigitVal(ds[Len(ds)])

\* a decimal number: sign, integer part, digits after the point
Dec(neg, int, frac) == [neg |-> neg, int |-> int, frac |-> frac]

DecText(d) ==
    (IF d.neg THEN <<"-">> ELSE <<>>) \o ToDigits(d.int)
    \o (IF d.frac = <<>> THEN <<>> ELSE <<".">> \o d.frac)

\* the double a decimal of at most 8 fractional digits denotes
DecValue(d) ==
    Double(FALSE, d.neg, U64(d.int), U64(DigitsValue(d.frac)), Len(d.frac), <<>>)

\* ------------------------------------------------------------------------
\* Inputs: field values in the style of the test suite, cycled through by
\* sample number so that neighbouring fields of a message never agree
\* ------------------------------------------------------------------------
NSamples == 3

UintPool == <<1, 8822354, 12345678, 1760083106, 0, 457, 86400000>>

DecPool ==
    <<Dec(FALSE, 1, <<"5", "8", "2", "2", "0", "0", "0">>),
      Dec(FALSE, 457, <<>>),
      Dec(FALSE, 45123, <<"7", "8", "9", "0", "0", "0", "0", "0">>),
      Dec(TRUE, 500, <<"0", "0">>),
      Dec(FALSE, 0, <<"0", "0", "0", "1", "2", "3", "4", "5">>),
      Dec(FALSE, 3000, <<>>),
      Dec(FALSE, 10, <<"5">>),
      Dec(TRUE, 1, <<"0">>),
      Dec(FALSE, 99999, <<"9", "9", "9", "9", "9", "9", "9", "9">>),
      Dec(FALSE, 0, <<"0", "0", "1">>),
      Dec(FALSE, 250, <<"2", "5">>)>>

SymPool ==
    <<<<"B", "T", "C", "U", "S", "D", "T">>,
      <<"A">>,
      <<"a", "b", "B", "a", "A", "q", "Q">>,
      <<"1", "0", "0", "0", "P", "E", "P", "E", "U", "S", "D", "T">>,
      <<"s", "T", "E", "m", "n", "l", "L", "f", "F">>>>

Cyc(pool, i) == pool[((i - 1) % Len(pool)) + 1]

Times == {1, 2}

\* bytes a read past the end of the input buffer may yield
PastBytes == {"t", "}"}

BoolText(b) == IF b THEN <<"t", "r", "u", "e">> ELSE <<"f", "a", "l", "s", "e">>

BookValues(i, j) ==
    [u |-> Cyc(UintPool, i), s |-> Cyc(SymPool, i),
     b |-> Cyc(DecPool, i), B |-> Cyc(DecPool, i + 1),
     a |-> Cyc(DecPool, i + 2), A |-> Cyc(DecPool, i + 3),
     T |-> Cyc(UintPool, i + j), E |-> Cyc(UintPool, i + 3)]

BookTexts(v) ==
    [u |-> ToDigits(v.u), s |-> v.s,
     b |-> DecText(v.b), B |-> DecText(v.B),
     a |-> DecText(v.a), A |-> DecText(v.A),
     T |-> ToDigits(v.T), E |-> ToDigits(v.E)]

AggValues(i, m) ==
    [E |-> Cyc(UintPool, i), s |-> Cyc(SymPool, i + 1),
     a |-> Cyc(UintPool, i + 1), p |-> Cyc(DecPool, i + 4),
     q |-> Cyc(DecPool, i + 5), f |-> Cyc(UintPool, i + 2),
     l |-> Cyc(UintPool, i + 3), T |-> Cyc(UintPool, i + 4), m |-> m]

AggTexts(v) ==
    [E |-> ToDigits(v.E), s |-> v.s, a |-> ToDigits(v.a),
     p |-> DecText(v.p), q |-> DecText(v.q),
     f |-> ToDigits(v.f), l |-> ToDigits(v.l), T |-> ToDigits(v.T),
     m |-> BoolText(v.m)]

TickerValues(i) ==
    [E |-> Cyc(UintPool, i), s |-> Cyc(SymPool, i + 2),
     p |-> Cyc(DecPool, i + 0),
     P |-> Cyc(DecPool, i + 1),
     w |-> Cyc(DecPool, i + 2),
     c |-> Cyc(DecPool, i + 3),
     Q |-> Cyc(DecPool, i + 4),
     o |-> Cyc(DecPool, i + 5),
     h |-> Cyc(DecPool, i + 6),
     l |-> Cyc(DecPool, i + 7),
     v |-> Cyc(DecPool, i + 8),
     q |-> Cyc(DecPool, i + 9),
     O |-> Cyc(UintPool, i + 1), C |-> Cyc(UintPool, i + 2),
     F |-> Cyc(UintPool, i + 3), L |-> Cyc(UintPool, i + 4),
     n |-> Cyc(UintPool, i + 5)]

TickerTexts(v) ==
    [E |-> ToDigits(v.E), s |-> v.s,
     p |-> DecText(v.p),
     P |-> DecText(v.P),
     w |-> DecText(v.w),
     c |-> DecText(v.c),
     Q |-> DecText(v.Q),
     o |-> DecText(v.o),
     h |-> DecText(v.h),
     l |-> DecText(v.l),
     v |-> DecText(v.v),
     q |-> DecText(v.q),
     O |-> ToDigits(v.O), C |-> ToDigits(v.C), F |-> ToDigits(v.F),
     L |-> ToDigits(v.L), n |-> ToDigits(v.n)]

BookSamples == {BookValues(i, j) : i \in 1..NSamples, j \in 1..2}

AggSamples == {AggValues(i, m) : i \in 1..NSamples, m \in BOOLEAN}

TickerSamples == {TickerValues(i) : i \in 1..NSamples}

WellFormedBook == {BookTickerMessage(BookTexts(v)) : v \in BookSamples}

WellFormedAgg == {AggTradeMessage(AggTexts(v)) : v \in AggSamples}

WellFormedTicker == {TickerMessage(TickerTexts(v)) : v \in TickerSamples}

WellFormedSingles == WellFormedBook \cup WellFormedAgg \cup WellFormedTicker

WellFormedArrays ==
    {TickerArrayMessage(<<TickerMessage(TickerTexts(TickerValues(i)))>>) :
        i \in 1..NSamples}
    \cup {TickerArrayMessage(<<TickerMessage(TickerTexts(TickerValues(1))),
                               TickerMessage(TickerTexts(TickerValues(2)))>>)}

\* every message cut off at any byte
ProperPrefixes(m) == {SubSeq(m, 1, k) : k \in 0..(Len(m) - 1)}

TruncatedBook == UNION {ProperPrefixes(m) : m \in WellFormedBook}

TruncatedAgg == UNION {ProperPrefixes(m) : m \in WellFormedAgg}

TruncatedTicker == UNION {ProperPrefixes(m) : m \in WellFormedTicker}

TruncatedInputs == TruncatedBook \cup TruncatedAgg \cup TruncatedTicker

\* a field whose value is missing, or numeric with a non-digit byte in it
EmptyValue == <<>>

BadNumber == <<"1", "x", "2">>

CorruptedBook ==
    {BookTickerMessage([BookTexts(v) EXCEPT ![k] = c]) :
        v \in BookSamples, k \in {"u", "b", "B", "a", "A", "T", "E"},
        c \in {EmptyValue, BadNumber}}
    \cup {BookTickerMessage([BookTexts(v) EXCEPT !.s = EmptyValue]) :
            v \in BookSamples}

CorruptedAgg ==
    {AggTradeMessage([AggTexts(v) EXCEPT ![k] = c]) :
        v \in AggSamples, k \in {"E", "a", "p", "q", "f", "l", "T"},
        c \in {EmptyValue, BadNumber}}
    \cup {AggTradeMessage([AggTexts(v) EXCEPT !.s = EmptyValue]) :
            v \in AggSamples}

CorruptedTicker ==
    {TickerMessage([TickerTexts(v) EXCEPT ![k] = c]) :
        v \in TickerSamples,
        k \in {"E", "p", "P", "w", "c", "Q", "o", "h", "l", "v", "q",
               "O", "C", "F", "L", "n"},
        c \in {EmptyValue, BadNumber}}
    \cup {TickerMessage([TickerTexts(v) EXCEPT !.s = EmptyValue]) :
            v \in TickerSamples}

CorruptedInputs == CorruptedBook \cup CorruptedAgg \cup CorruptedTicker

\* the message with byte k replaced by c
Replace(m, k, c) == [m EXCEPT ![k] = c]

\* messages of at least MinSize bytes whose first 16 bytes match no pattern:
\* an unknown event type, a well-formed message with one byte of its type
\* tag damaged, and an empty array padded with blanks
TradeMessage ==
    <<"{">> \o Key("e") \o Quoted(<<"t", "r", "a", "d", "e">>) \o <<",">>
    \o Key("t") \o ToDigits(123456) \o <<"}">>

PaddedEmptyArray == <<"[", "]">> \o [i \in 1..18 |-> " "]

UnknownInputs ==
    {TradeMessage, PaddedEmptyArray}
    \cup {Replace(m, k, "x") : m \in WellFormedSingles \cup WellFormedArrays,
                               k \in {1, 8, 16}}

\* inputs below the minimum length: the short messages of the test suite,
\* the empty array, and every short prefix of a well-formed message
ShortBook == <<"{">> \o Key("e") \o Quoted(<<"b", "o", "o", "k">>) \o <<"}">>

EmptyArray == <<"[", "]">>

ShortInputs ==
    {ShortBook, EmptyArray}
    \cup {m \in TruncatedInputs : Len(m) < MinSize}


\* an aggTrade message that ends right after the colon of its m key
AggTradeCutAtMaker ==
    SubSeq(AggTradeMessage(AggTexts(AggValues(1, TRUE))), 1,
           Len(AggTradeMessage(AggTexts(AggValues(1, TRUE)))) - 5)

\* the mixed feed of the test suite: messages of every type, an unknown
\* one and a short one, and a message cut off in transit
SessionInputs ==
    {BookTickerMessage(BookTexts(BookValues(1, 1))),
     BookTickerMessage(BookTexts(BookValues(2, 1))),
     AggTradeMessage(AggTexts(AggValues(1, TRUE))),
     AggTradeMessage(AggTexts(AggValues(2, FALSE))),
     TickerMessage(TickerTexts(TickerValues(1))),
     TickerArrayMessage(<<TickerMessage(TickerTexts(TickerValues(1))),
                          TickerMessage(TickerTexts(TickerValues(2)))>>),
     TradeMessage, ShortBook, AggTradeCutAtMaker}

\* arrays of rolling-stats objects, in the layouts process_ticker_array
\* skips over: elements separated by a comma, with optional blanks, line
\* ends and tabs around them
MaxArrayLen == 3

TickerObject(i) == TickerMessage(TickerTexts(TickerValues(i)))

RECURSIVE JoinElements(_, _)
JoinElements(elems, sep) ==
    IF elems = <<>> THEN <<>>
    ELSE IF Len(elems) = 1 THEN elems[1]
    ELSE elems[1] \o sep \o JoinElements(Tail(elems), sep)

ArrayLayouts ==
    {[lead |-> <<>>, sep |-> <<",">>, trail |-> <<>>],
     [lead |-> <<" ">>, sep |-> <<",", " ">>, trail |-> <<" ">>],
     [lead |-> <<"\n">>, sep |-> <<",", "\r", "\n", "\t">>, trail |-> <<"\n">>]}

TickerArrayLayout(elems, l) ==
    <<"[">> \o l.lead \o JoinElements(elems, l.sep) \o l.trail \o <<"]">>

\* the runs of n samples an array is made of: one sample repeated, or
\* consecutive samples from any start
SampleRuns(n) ==
    {[i \in 1..n |-> ((s - 1 + d * (i - 1)) % NSamples) + 1] :
        s \in 1..NSamples, d \in {0, 1}}

\* every array of a run of 0..MaxArrayLen sample objects in every layout,
\* with the objects it is made of
ArrayCases ==
    UNION {{[objs |-> [i \in 1..n |-> TickerObject(f[i])],
             msg |-> TickerArrayLayout([i \in 1..n |-> TickerObject(f[i])], l)] :
               f \in SampleRuns(n), l \in ArrayLayouts} :
           n \in 0..MaxArrayLen}

\* elements the array walker cannot decode: a token that is no object, and
\* an object the buffer ends in the middle of
JunkElements == {<<"n", "u", "l", "l">>, <<"1", "2">>}

CutObjects == {SubSeq(TickerObject(1), 1, k) : k \in {1, 40, Len(TickerObject(1)) - 1}}

\* arrays whose first undecodable element follows 1..MaxArrayLen-1
\* well-formed ones (good): a junk token, alone or with a well-formed
\* element after it, or an object cut off by the end of the buffer
BrokenArrayCases ==
    UNION {{[good |-> [i \in 1..n |-> TickerObject(f[i])],
             msg |-> TickerArrayLayout(
                         [i \in 1..n |-> TickerObject(f[i])] \o <<j>> \o later,
                         [lead |-> <<>>, sep |-> <<",">>, trail |-> <<>>])] :
               f \in SampleRuns(n), j \in JunkElements,
               later \in {<<>>, <<TickerObject(2)>>}}
           \cup
           {[good |-> [i \in 1..n |-> TickerObject(f[i])],
             msg |-> <<"[">> \o JoinElements(
                         [i \in 1..n |-> TickerObject(f[i])] \o <<c>>, <<",">>)] :
               f \in SampleRuns(n), c \in CutObjects} :
           n \in 1..(MaxArrayLen - 1)}

\* the arrays the buffer ends in before the closing bracket: each array
\* without its last byte
OpenArrayCases ==
    {[objs |-> c.objs, msg |-> SubSeq(c.msg, 1, Len(c.msg) - 1)] :
        c \in ArrayCases}

ArrayInputs ==
    {c.msg : c \in ArrayCases} \cup {c.msg : c \in BrokenArrayCases}
    \cup {c.msg : c \in OpenArrayCases}

\* symbols of every length from 1 to MaxSymbolLen, made of digits, letters
\* that are keys of the messages, and other letters
MaxSymbolLen == 20

SymbolAlphabet ==
    <<"1", "0", "s", "b", "B", "a", "A", "T", "E", "u",
      "p", "q", "f", "l", "m", "n", "U", "_", "e", "Q">>

SymbolOfLen(n) == [i \in 1..n |-> Cyc(SymbolAlphabet, i)]

\* a well-formed message of each type for each symbol length, with the
\* symbols its records are to carry; the array holds two objects
SymbolCases ==
    {[msg |-> BookTickerMessage(
                  [BookTexts(BookValues(1, 1)) EXCEPT !.s = SymbolOfLen(n)]),
      syms |-> <<SymbolOfLen(n)>>] : n \in 1..MaxSymbolLen}
    \cup
    {[msg |-> AggTradeMessage(
                  [AggTexts(AggValues(1, TRUE)) EXCEPT !.s = SymbolOfLen(n)]),
      syms |-> <<SymbolOfLen(n)>>] : n \in 1..MaxSymbolLen}
    \cup
    {[msg |-> TickerMessage(
                  [TickerTexts(TickerValues(1)) EXCEPT !.s = SymbolOfLen(n)]),
      syms |-> <<SymbolOfLen(n)>>] : n \in 1..MaxSymbolLen}
    \cup
    {[msg |-> TickerArrayMessage(
                  <<TickerMessage([TickerTexts(TickerValues(1))
                                      EXCEPT !.s = SymbolOfLen(n)]),
                    TickerMessage([TickerTexts(TickerValues(2))
                                      EXCEPT !.s = SymbolOfLen(MaxSymbolLen + 1 - n)])>>),
      syms |-> <<SymbolOfLen(n), SymbolOfLen(MaxSymbolLen + 1 - n)>>] :
        n \in 1..MaxSymbolLen}

\* texts in the place of the boolean literal of an aggTrade: the two
\* literals, pieces and misspellings of them, other JSON values, nothing
MakerLiterals ==
    {<<"t", "r", "u", "e">>, <<"f", "a", "l", "s", "e">>,
     <<"t">>, <<"f">>, <<"t", "r", "u">>, <<"t", "a", "l", "s", "e">>,
     <<"T", "r", "u", "e">>, <<"x", "t", "r", "u", "e">>,
     <<"n", "u", "l", "l">>, <<"1">>, <<"\"", "t", "r", "u", "e", "\"">>,
     <<>>}

\* an aggTrade message for each of them, with its field values and the
\* offset of the byte that follows the colon of the m key
MakerCases ==
    {[v |-> AggValues(i, TRUE), lit |-> lit,
      msg |-> AggTradeMessage([AggTexts(AggValues(i, TRUE)) EXCEPT !.m = lit]),
      at |-> Len(AggTradeMessage([AggTexts(AggValues(i, TRUE))
                                     EXCEPT !.m = <<>>])) - 1] :
        i \in 1..NSamples, lit \in MakerLiterals}

\* the arrays of at most one object, in every layout
ShapedArrayCases == {c \in ArrayCases : Len(c.objs) <= 1}

AllInputs ==
    WellFormedSingles \cup WellFormedArrays \cup TruncatedInputs
    \cup CorruptedInputs \cup UnknownInputs \cup ShortInputs
    \cup {c.msg : c \in ShapedArrayCases} \cup {c.msg : c \in SymbolCases}
    \cup {c.msg : c \in MakerCases}

\* ------------------------------------------------------------------------
\* The program: a listener and a sequence of parse calls
\* ------------------------------------------------------------------------
MaxCalls == 2

\* the arguments of the calls of one handler, in call order
Args(calls, handler) ==
    LET own == SelectSeq(calls, LAMBDA c : c.handler = handler)
    IN  [i \in 1..Len(own) |-> own[i].arg]

Init ==
    /\ raw = <<>>
    /\ now = 0
    /\ result = FALSE
    /\ walker = "none"
    /\ emitted = <<>>
    /\ lookups = 0
    /\ oob = FALSE
    /\ book_tickers = <<>>
    /\ agg_trades = <<>>
    /\ tickers = <<>>
    /\ ncalls = 0

\* binance_future_parser_t::parse(tnow, buf, listener) with a MockListener
Call(tnow, buf, past) ==
    \E res \in {parse(tnow, buf, past)} :
        /\ raw' = buf
        /\ now' = tnow
        /\ result' = res.ok
        /\ walker' = res.walker
        /\ emitted' = res.calls
        /\ lookups' = res.lookups
        /\ oob' = res.oob
        /\ book_tickers' = book_tickers \o Args(res.calls, "on_book_ticker")
        /\ agg_trades' = agg_trades \o Args(res.calls, "on_trade")
        /\ tickers' = tickers \o Args(res.calls, "on_ticker")
        /\ ncalls' = ncalls + 1

ParseMessage ==
    /\ ncalls < MaxCalls
    /\ \E buf \in SessionInputs, tnow \in Times, past \in PastBytes :
           Call(tnow, buf, past)

\* MockListener::reset
Reset ==
    /\ book_tickers' = <<>>
    /\ agg_trades' = <<>>
    /\ tickers' = <<>>
    /\ UNCHANGED <<raw, now, result, walker, emitted, lookups, oob, ncalls>>

Next == ParseMessage \/ Reset

Spec == Init /\ [][Next]_vars

\* one parse call on any input of the families above
ParseAnyInput ==
    /\ ncalls = 0
    /\ \E buf \in AllInputs, tnow \in Times, past \in PastBytes :
           Call(tnow, buf, past)

NextSingleCall == ParseAnyInput

SpecSingleCall == Init /\ [][NextSingleCall]_vars

\* binance_future_parser_t::process_ticker_array(tnow, buf, listener)
\* called directly, as ParseEmptyTickerArray does
CallTickerArray(tnow, buf, past) ==
    \E res \in {process_ticker_array(tnow, buf, past)} :
        /\ raw' = buf
        /\ now' = tnow
        /\ result' = res.ok
        /\ walker' = "process_ticker_array"
        /\ emitted' = res.calls
        /\ lookups' = res.lookups
        /\ oob' = res.oob
        /\ tickers' = tickers \o Args(res.calls, "on_ticker")
        /\ ncalls' = ncalls + 1
        /\ UNCHANGED <<book_tickers, agg_trades>>

WalkAnyArray ==
    /\ ncalls = 0
    /\ \E buf \in ArrayInputs, tnow \in Times, past \in PastBytes :
           CallTickerArray(tnow, buf, past)

NextTickerArray == WalkAnyArray

SpecTickerArray == Init /\ [][NextTickerArray]_vars

\* ------------------------------------------------------------------------
\* The byte-scan primitive on its own: a buffer, a range [ptr, end) of it
\* and a target byte are drawn, and every variant of find_char is run on
\* them.
\* ------------------------------------------------------------------------
MaxBufLen == 130

\* a range of len bytes whose first target byte is at offset m of it (none
\* when m = len), with target bytes from there on, and with a target byte
\* right before the range and right after it
FindInput(len, m) ==
    [buf |-> <<"x">> \o [i \in 1..len |-> IF i <= m THEN "." ELSE "x"]
             \o <<"x">>,
     ptr |-> 1, end |-> len + 1, target |-> "x"]

FindInputs == {FindInput(len, m) : len \in 0..MaxBufLen, m \in 0..MaxBufLen}

InitFindChar ==
    /\ raw \in FindInputs
    /\ now = 0
    /\ result = FALSE
    /\ walker = "none"
    /\ emitted = <<>>
    /\ lookups = 0
    /\ oob = FALSE
    /\ book_tickers = <<>>
    /\ agg_trades = <<>>
    /\ tickers = <<>>
    /\ ncalls = 0

ApplyFindChar ==
    /\ ncalls = 0
    /\ result' = [scalar |-> find_char(raw.buf, raw.ptr, raw.end, raw.target),
                  avx2 |-> avx2_find_char(raw.buf, raw.ptr, raw.end, raw.target),
                  avx512 |-> avx512_find_char(raw.buf, raw.ptr, raw.end, raw.target),
                  neon |-> neon_find_char(raw.buf, raw.ptr, raw.end, raw.target)]
    /\ walker' = "find_char"
    /\ lookups' = 1
    /\ ncalls' = 1
    /\ UNCHANGED <<raw, now, emitted, oob, book_tickers, agg_trades, tickers>>

NextFindChar == ApplyFindChar

SpecFindChar == InitFindChar /\ [][NextFindChar]_vars

\* ------------------------------------------------------------------------
\* find_char_set (scalar/utils_scalar.h, avx2/utils_avx2.h,
\* neon/utils_neon.h): the first byte of [ptr, end) that is one of the
\* targets, and in which the index of the target found.  A result is the
\* position returned and the value which_char holds after the call.
\* ------------------------------------------------------------------------
\* "for (size_t i = 0; i < num_targets; ++i) if (*ptr == targets[i])": the
\* first index whose target is the byte c, NULL when none is
TargetIndex(c, targets, num_targets) ==
    IF \E i \in 0..(num_targets - 1) : targets[i + 1] = c
    THEN CHOOSE i \in 0..(num_targets - 1) :
             /\ targets[i + 1] = c
             /\ \A j \in 0..(i - 1) : targets[j + 1] # c
    ELSE NULL

\* the byte-at-a-time loop
find_char_set(buf, ptr, end, targets, num_targets, which_char) ==
    IF \E p \in ptr..(end - 1) :
           TargetIndex(buf[p + 1], targets, num_targets) # NULL
    THEN LET at == CHOOSE p \in ptr..(end - 1) :
                       /\ TargetIndex(buf[p + 1], targets, num_targets) # NULL
                       /\ \A q \in ptr..(p - 1) :
                              TargetIndex(buf[q + 1], targets, num_targets)
                                  = NULL
         IN  [ptr |-> at,
              which_char |-> TargetIndex(buf[at + 1], targets, num_targets)]
    ELSE [ptr |-> NULL, which_char |-> which_char]

\* "for (size_t i = 0; i < num_targets; ++i) { ... if (mask != 0)": the
\* first index whose target occurs in the width bytes at ptr, NULL when
\* none does
ChunkTarget(buf, ptr, width, targets, num_targets) ==
    IF \E i \in 0..(num_targets - 1) :
           CompareMask(buf, ptr, width, targets[i + 1]) # {}
    THEN CHOOSE i \in 0..(num_targets - 1) :
             /\ CompareMask(buf, ptr, width, targets[i + 1]) # {}
             /\ \A j \in 0..(i - 1) :
                    CompareMask(buf, ptr, width, targets[j + 1]) = {}
    ELSE NULL

\* "while (ptr + 32 <= end)": per chunk the targets are tried in order, and
\* the first one that occurs in the chunk gives the result
RECURSIVE avx2_find_char_set(_, _, _, _, _, _)
avx2_find_char_set(buf, ptr, end, targets, num_targets, which_char) ==
    IF ptr + 32 <= end
    THEN IF ChunkTarget(buf, ptr, 32, targets, num_targets) # NULL
         THEN [ptr |-> ptr + ctz(CompareMask(buf, ptr, 32,
                           targets[ChunkTarget(buf, ptr, 32, targets,
                                               num_targets) + 1])),
               which_char |-> ChunkTarget(buf, ptr, 32, targets, num_targets)]
         ELSE avx2_find_char_set(buf, ptr + 32, end, targets, num_targets,
                                 which_char)
    ELSE find_char_set(buf, ptr, end, targets, num_targets, which_char)

\* "while (ptr + 16 <= end)": per chunk the targets are tried in order; the
\* compare result of a target is read as two halves and a half that is
\* not zero is searched byte by byte
RECURSIVE neon_find_char_set(_, _, _, _, _, _)
neon_find_char_set(buf, ptr, end, targets, num_targets, which_char) ==
    IF ptr + 16 <= end
    THEN IF ChunkTarget(buf, ptr, 16, targets, num_targets) # NULL
         THEN [ptr |-> NeonChunk(buf, ptr,
                           targets[ChunkTarget(buf, ptr, 16, targets,
                                               num_targets) + 1]),
               which_char |-> ChunkTarget(buf, ptr, 16, targets, num_targets)]
         ELSE neon_find_char_set(buf, ptr + 16, end, targets, num_targets,
                                 which_char)
    ELSE find_char_set(buf, ptr, end, targets, num_targets, which_char)

MaxSetLen == 40

\* a range of len bytes with the byte "a" at offset m of it and the byte
\* "b" at offset k (neither when the offset is len; "a" when both fall on
\* one byte), and a target byte right before the range and right after it
SetBuffer(len, m, k) ==
    <<"a">> \o [i \in 1..len |-> IF i = m + 1 THEN "a"
                                 ELSE IF i = k + 1 THEN "b" ELSE "."]
            \o <<"b">>

TargetSets == {<<"a", "b">>, <<"b", "a">>, <<"a">>, <<"b", "b">>, <<"x", "b">>}

FindSetInputs ==
    {[buf |-> SetBuffer(len, m, k), ptr |-> 1, end |-> len + 1,
      targets |-> ts, num_targets |-> Len(ts), which_char |-> NULL] :
         len \in 0..MaxSetLen, m \in 0..MaxSetLen, k \in {0, 1, 17, 33},
         ts \in TargetSets}

InitFindCharSet ==
    /\ raw \in FindSetInputs
    /\ now = 0
    /\ result = FALSE
    /\ walker = "none"
    /\ emitted = <<>>
    /\ lookups = 0
    /\ oob = FALSE
    /\ book_tickers = <<>>
    /\ agg_trades = <<>>
    /\ tickers = <<>>
    /\ ncalls = 0

ApplyFindCharSet ==
    /\ ncalls = 0
    /\ result' = [scalar |-> find_char_set(raw.buf, raw.ptr, raw.end,
                                raw.targets, raw.num_targets, raw.which_char),
                  avx2 |-> avx2_find_char_set(raw.buf, raw.ptr, raw.end,
                               raw.targets, raw.num_targets, raw.which_char),
                  neon |-> neon_find_char_set(raw.buf, raw.ptr, raw.end,
                               raw.targets, raw.num_targets, raw.which_char)]
    /\ walker' = "find_char_set"
    /\ lookups' = 1
    /\ ncalls' = 1
    /\ UNCHANGED <<raw, now, emitted, oob, book_tickers, agg_trades, tickers>>

NextFindCharSet == ApplyFindCharSet

SpecFindCharSet == InitFindCharSet /\ [][NextFindCharSet]_vars

\* ------------------------------------------------------------------------
\* The integer micro-parser on its own: a digit text is drawn and
\* parse_uint64 is run on it.
\* ------------------------------------------------------------------------
MaxDigits == 25

\* tapes of 26 digits: 2^64 - 1 followed by more digits, 2^64 followed by
\* more digits, a run of nines, and leading zeros; the texts are the
\* windows of at most MaxDigits digits of the tapes
DigitTapes ==
    {<<"1", "8", "4", "4", "6", "7", "4", "4", "0", "7", "3", "7", "0", "9",
       "5", "5", "1", "6", "1", "5", "9", "0", "2", "8", "3", "7">>,
     <<"1", "8", "4", "4", "6", "7", "4", "4", "0", "7", "3", "7", "0", "9",
       "5", "5", "1", "6", "1", "6", "0", "0", "0", "0", "0", "1">>,
     <<"9", "9", "9", "9", "9", "9", "9", "9", "9", "9", "9", "9", "9", "9",
       "9", "9", "9", "9", "9", "9", "9", "9", "9", "9", "9", "9">>,
     <<"0", "0", "0", "0", "0", "0", "1", "2", "3", "4", "5", "6", "7", "8",
       "9", "0", "1", "2", "3", "4", "5", "6", "7", "8", "9", "0">>}

DigitTexts ==
    {d \in {SubSeq(t, i, j) : t \in DigitTapes, i \in 1..26, j \in 0..26} :
        Len(d) <= MaxDigits}

InitUint64 ==
    /\ raw \in DigitTexts
    /\ now = 0
    /\ result = FALSE
    /\ walker = "none"
    /\ emitted = <<>>
    /\ lookups = 0
    /\ oob = FALSE
    /\ book_tickers = <<>>
    /\ agg_trades = <<>>
    /\ tickers = <<>>
    /\ ncalls = 0

\* "parse_8_digits(ptr)" in parse_uint64 passes a bare pointer where a
\* std::string_view is taken: the view's length is found by scanning from
\* ptr for a NUL byte, so a text that takes a batch and holds no NUL byte is
\* read past its end.  The value does not depend on that length.
Uint64NulScan(str) ==
    /\ Uint64Batches(str, str.off, str.off + str.size, U64Zero).ptr > str.off
    /\ \A i \in 1..Len(str.data) : IsDigit(str.data[i])

ApplyParseUint64 ==
    /\ ncalls = 0
    /\ \E past \in PastBytes :
           /\ result' = parse_uint64(string_view(raw, 0, Len(raw), past))
           /\ oob' = Uint64NulScan(string_view(raw, 0, Len(raw), past))
    /\ walker' = "parse_uint64"
    /\ ncalls' = 1
    /\ UNCHANGED <<raw, now, emitted, lookups,
                   book_tickers, agg_trades, tickers>>

NextUint64 == ApplyParseUint64

SpecUint64 == InitUint64 /\ [][NextUint64]_vars

\* ------------------------------------------------------------------------
\* The decimal micro-parser on its own: a decimal text is drawn and
\* parse_float is run on it.
\* ------------------------------------------------------------------------
MaxIntegerDigits == 25

MaxFractionDigits == 18

\* tapes of 27 integer digits: zeros, a run of nines, a counting run and a
\* price-like run; the integer parts are their prefixes
IntegerTapes ==
    {<<"0", "0", "0", "0", "0", "0", "0", "0", "0",
       "0", "0", "0", "0", "0", "0", "0", "0", "0",
       "0", "0", "0", "0", "0", "0", "0", "0", "0">>,
     <<"9", "9", "9", "9", "9", "9", "9", "9", "9",
       "9", "9", "9", "9", "9", "9", "9", "9", "9",
       "9", "9", "9", "9", "9", "9", "9", "9", "9">>,
     <<"1", "2", "3", "4", "5", "6", "7", "8", "9",
       "0", "1", "2", "3", "4", "5", "6", "7", "8",
       "9", "0", "1", "2", "3", "4", "5", "6", "7">>,
     <<"6", "7", "8", "9", "0", "0", "0", "0", "0",
       "0", "0", "0", "1", "0", "0", "0", "0", "0",
       "0", "0", "0", "0", "0", "0", "0", "0", "1">>}

\* tapes of 20 fractional digits: 2^-9 padded with zeros, the digits of the
\* ParseDecimals and ParseFinancialPrices tests continued, nines and zeros
FractionTapes ==
    {<<"0", "0", "1", "9", "5", "3", "1", "2", "5", "0",
       "0", "0", "0", "0", "0", "0", "0", "0", "0", "0">>,
     <<"1", "2", "3", "4", "5", "6", "7", "8", "9", "0",
       "1", "2", "3", "4", "5", "6", "7", "8", "9", "0">>,
     <<"0", "0", "0", "0", "1", "2", "3", "4", "0", "0",
       "0", "0", "0", "0", "0", "0", "0", "0", "0", "1">>,
     <<"9", "9", "9", "9", "9", "9", "9", "9", "9", "9",
       "9", "9", "9", "9", "9", "9", "9", "9", "9", "9">>,
     <<"0", "0", "0", "0", "0", "0", "0", "0", "0", "0",
       "0", "0", "0", "0", "0", "0", "0", "0", "0", "0">>}

FloatSigns == {<<>>, <<"-">>, <<"+">>}

IntegerTexts ==
    {SubSeq(t, 1, n) : t \in IntegerTapes, n \in 1..MaxIntegerDigits}

FractionTexts ==
    {<<>>} \cup {<<".">> \o SubSeq(t, 1, n) :
                    t \in FractionTapes, n \in 1..MaxFractionDigits}

FloatTexts ==
    {sg \o i \o f : sg \in FloatSigns, i \in IntegerTexts, f \in FractionTexts}

InitFloat ==
    /\ raw \in FloatTexts
    /\ now = 0
    /\ result = FALSE
    /\ walker = "none"
    /\ emitted = <<>>
    /\ lookups = 0
    /\ oob = FALSE
    /\ book_tickers = <<>>
    /\ agg_trades = <<>>
    /\ tickers = <<>>
    /\ ncalls = 0

ApplyParseFloat ==
    /\ ncalls = 0
    /\ \E past \in PastBytes :
           result' = parse_float(string_view(raw, 0, Len(raw), past))
    /\ walker' = "parse_float"
    /\ ncalls' = 1
    /\ UNCHANGED <<raw, now, emitted, lookups, oob,
                   book_tickers, agg_trades, tickers>>

NextFloat == ApplyParseFloat

SpecFloat == InitFloat /\ [][NextFloat]_vars

\* ------------------------------------------------------------------------
\* The single-object walker on its own: parse_single_ticker is started at
\* the opening brace of an element of an array, with the end of the array
\* or an earlier position as its end.
\* ------------------------------------------------------------------------
\* the offset of the i-th element of the array of elems in layout l
RECURSIVE ElementStart(_, _, _)
ElementStart(elems, l, i) ==
    IF i = 1 THEN 1 + Len(l.lead)
    ELSE ElementStart(elems, l, i - 1) + Len(elems[i - 1]) + Len(l.sep)

\* every element of every array: the array, the element's offset and
\* length, and the values it was written from
TickerElementCases ==
    UNION {{[buf |-> TickerArrayLayout([j \in 1..n |-> TickerObject(f[j])], l),
             ptr |-> ElementStart([j \in 1..n |-> TickerObject(f[j])], l, i),
             size |-> Len(TickerObject(f[i])),
             v |-> TickerValues(f[i])] :
               f \in SampleRuns(n), l \in ArrayLayouts, i \in 1..n} :
           n \in 1..MaxArrayLen}

\* the ends the walker is given: the end of the array, the end of the
\* element, and positions inside the element
ElementEnds(c) ==
    {Len(c.buf), c.ptr + c.size, c.ptr + c.size - 1, c.ptr + c.size - 3,
     c.ptr + 40, c.ptr + 1, c.ptr}

SingleTickerInputs ==
    UNION {{[buf |-> c.buf, ptr |-> c.ptr, size |-> c.size, v |-> c.v,
             end |-> e] : e \in ElementEnds(c)} : c \in TickerElementCases}

InitSingleTicker ==
    /\ raw \in SingleTickerInputs
    /\ now = 0
    /\ result = FALSE
    /\ walker = "none"
    /\ emitted = <<>>
    /\ lookups = 0
    /\ oob = FALSE
    /\ book_tickers = <<>>
    /\ agg_trades = <<>>
    /\ tickers = <<>>
    /\ ncalls = 0

ApplyParseSingleTicker ==
    /\ ncalls = 0
    /\ \E tnow \in Times, past \in PastBytes :
           /\ result' = parse_single_ticker(raw.buf, raw.ptr, raw.end, tnow, past)
           /\ now' = tnow
    /\ walker' = "parse_single_ticker"
    /\ ncalls' = 1
    /\ UNCHANGED <<raw, emitted, lookups, oob,
                   book_tickers, agg_trades, tickers>>

NextSingleTicker == ApplyParseSingleTicker

SpecSingleTicker == InitSingleTicker /\ [][NextSingleTicker]_vars

\* ------------------------------------------------------------------------
\* The per-platform walkers (binance/avx2/book_ticker_avx2.h,
\* binance/neon/book_ticker_neon.h, binance/scalar/agg_trade_scalar.h), each
\* with the find_char of its own namespace
\* ------------------------------------------------------------------------
FindCharOf(impl, buf, ptr, end, target) ==
    CASE impl = "scalar" -> find_char(buf, ptr, end, target)
      [] impl = "avx2" -> avx2_find_char(buf, ptr, end, target)
      [] impl = "neon" -> neon_find_char(buf, ptr, end, target)

\* the steps of a per-platform walker from row i on
RECURSIVE VariantWalkFields(_, _, _, _, _, _, _, _, _)
VariantWalkFields(impl, buf, ptr, end, past, rows, i, vals, n) ==
    IF i > Len(rows)
    THEN [ptr |-> ptr, vals |-> vals, lookups |-> n]
    ELSE
    LET k == FindCharOf(impl, buf, ptr, end, rows[i].key)
    IN  IF k = NULL THEN [ptr |-> NULL, vals |-> vals, lookups |-> n + 1]
        ELSE
        LET t == FindCharOf(impl, buf, k + rows[i].skip, end, rows[i].term)
        IN  IF t = NULL THEN [ptr |-> NULL, vals |-> vals, lookups |-> n + 2]
            ELSE VariantWalkFields(impl, buf, t + rows[i].advance, end, past,
                     rows, i + 1,
                     IF rows[i].kind = "none" THEN vals
                     ELSE (rows[i].field :>
                              FieldValue(rows[i].kind, buf,
                                         k + rows[i].skip, t, past)) @@ vals,
                     n + 2)

\* avx2::process_book_ticker: the rows of the dispatcher's walker
Avx2BookTickerFields ==
    <<[key |-> "u", skip |-> 3, term |-> ",", kind |-> "uint64", field |-> "update_id", advance |-> 0],
      [key |-> "s", skip |-> 4, term |-> "\"", kind |-> "symbol", field |-> "symbol", advance |-> 1],
      [key |-> "b", skip |-> 4, term |-> "\"", kind |-> "float", field |-> "bid_price", advance |-> 1],
      [key |-> "B", skip |-> 4, term |-> "\"", kind |-> "float", field |-> "bid_volume", advance |-> 1],
      [key |-> "a", skip |-> 4, term |-> "\"", kind |-> "float", field |-> "ask_price", advance |-> 1],
      [key |-> "A", skip |-> 4, term |-> "\"", kind |-> "float", field |-> "ask_volume", advance |-> 1],
      [key |-> "T", skip |-> 0, term |-> ",", kind |-> "none", field |-> "", advance |-> 1],
      [key |-> "E", skip |-> 3, term |-> "}", kind |-> "uint64", field |-> "exchange_timestamp", advance |-> 0]>>

avx2_process_book_ticker(tnow, buf, past) ==
    LET w == VariantWalkFields("avx2", buf, 0, Len(buf), past,
                               Avx2BookTickerFields, 1, <<>>, 0)
    IN  IF w.ptr = NULL THEN WalkerFail(w.lookups)
        ELSE WalkerDone(<<on_book_ticker(book_ticker_t(tnow, w.vals))>>,
                        w.lookups, FALSE)

\* the NEON process_book_ticker: the s key is passed over up to the next
\* ',' and nothing is assigned to ticker.symbol
NeonBookTickerFields ==
    <<[key |-> "u", skip |-> 3, term |-> ",", kind |-> "uint64", field |-> "update_id", advance |-> 0],
      [key |-> "s", skip |-> 0, term |-> ",", kind |-> "none", field |-> "", advance |-> 1],
      [key |-> "b", skip |-> 4, term |-> "\"", kind |-> "float", field |-> "bid_price", advance |-> 1],
      [key |-> "B", skip |-> 4, term |-> "\"", kind |-> "float", field |-> "bid_volume", advance |-> 1],
      [key |-> "a", skip |-> 4, term |-> "\"", kind |-> "float", field |-> "ask_price", advance |-> 1],
      [key |-> "A", skip |-> 4, term |-> "\"", kind |-> "float", field |-> "ask_volume", advance |-> 1],
      [key |-> "T", skip |-> 0, term |-> ",", kind |-> "none", field |-> "", advance |-> 1],
      [key |-> "E", skip |-> 3, term |-> "}", kind |-> "uint64", field |-> "exchange_timestamp", advance |-> 0]>>

\* "std::string_view symbol" of a default-constructed book_ticker_t: the
\* empty view
DefaultSymbol == [off |-> NULL, size |-> 0]

neon_process_book_ticker(tnow, buf, past) ==
    LET w == VariantWalkFields("neon", buf, 0, Len(buf), past,
                               NeonBookTickerFields, 1,
                               "symbol" :> DefaultSymbol, 0)
    IN  IF w.ptr = NULL THEN WalkerFail(w.lookups)
        ELSE WalkerDone(<<on_book_ticker(book_ticker_t(tnow, w.vals))>>,
                        w.lookups, FALSE)

\* scalar::process_agg_trade: the rows of the dispatcher's walker, then the
\* m key with its literal compared
ScalarAggTradeFields ==
    <<[key |-> "E", skip |-> 3, term |-> ",", kind |-> "uint64", field |-> "event_time", advance |-> 0],
      [key |-> "s", skip |-> 4, term |-> "\"", kind |-> "symbol", field |-> "symbol", advance |-> 1],
      [key |-> "a", skip |-> 3, term |-> ",", kind |-> "uint64", field |-> "agg_trade_id", advance |-> 0],
      [key |-> "p", skip |-> 4, term |-> "\"", kind |-> "float", field |-> "price", advance |-> 1],
      [key |-> "q", skip |-> 4, term |-> "\"", kind |-> "float", field |-> "quantity", advance |-> 1],
      [key |-> "f", skip |-> 3, term |-> ",", kind |-> "uint64", field |-> "first_trade_id", advance |-> 0],
      [key |-> "l", skip |-> 3, term |-> ",", kind |-> "uint64", field |-> "last_trade_id", advance |-> 0],
      [key |-> "T", skip |-> 3, term |-> ",", kind |-> "uint64", field |-> "trade_time", advance |-> 0]>>

on_agg_trade(trade) == [handler |-> "on_agg_trade", arg |-> trade]

\* "if (ptr + 4 <= end && std::string_view(ptr, 4) == "true") ... else if
\* (ptr + 5 <= end && std::string_view(ptr, 5) == "false") ... else return
\* false"
ScalarAggTradeMaker(tnow, buf, end, w, k) ==
    IF k = NULL THEN WalkerFail(w.lookups + 1)
    ELSE IF k + 3 + 4 <= end
            /\ SubSeq(buf, k + 4, k + 7) = <<"t", "r", "u", "e">>
    THEN WalkerDone(<<on_agg_trade(agg_trade_t(tnow, w.vals, TRUE))>>,
                    w.lookups + 1, FALSE)
    ELSE IF k + 3 + 5 <= end
            /\ SubSeq(buf, k + 4, k + 8) = <<"f", "a", "l", "s", "e">>
    THEN WalkerDone(<<on_agg_trade(agg_trade_t(tnow, w.vals, FALSE))>>,
                    w.lookups + 1, FALSE)
    ELSE WalkerFail(w.lookups + 1)

scalar_process_agg_trade(tnow, buf, past) ==
    LET w == VariantWalkFields("scalar", buf, 0, Len(buf), past,
                               ScalarAggTradeFields, 1, <<>>, 0)
    IN  IF w.ptr = NULL THEN WalkerFail(w.lookups)
        ELSE ScalarAggTradeMaker(tnow, buf, Len(buf), w,
                                 find_char(buf, w.ptr, Len(buf), "m"))

\* The walkers of one message type called on the same buffer: result keeps
\* what each returned and delivered.
VariantInputs ==
    WellFormedBook \cup TruncatedBook \cup CorruptedBook
    \cup WellFormedAgg \cup TruncatedAgg \cup CorruptedAgg
    \cup {c.msg : c \in SymbolCases} \cup {c.msg : c \in MakerCases}

InitVariants ==
    /\ raw \in VariantInputs
    /\ now \in Times
    /\ result = <<>>
    /\ walker = "none"
    /\ emitted = <<>>
    /\ lookups = 0
    /\ oob = FALSE
    /\ book_tickers = <<>>
    /\ agg_trades = <<>>
    /\ tickers = <<>>
    /\ ncalls = 0

ApplyBookTickerVariants ==
    /\ ncalls = 0
    /\ \E past \in PastBytes :
       \E d \in {process_book_ticker(now, raw, past)} :
       \E a \in {avx2_process_book_ticker(now, raw, past)} :
       \E n \in {neon_process_book_ticker(now, raw, past)} :
           /\ result' = [dispatcher |-> d, avx2 |-> a, neon |-> n]
           /\ emitted' = d.calls
           /\ lookups' = d.lookups
           /\ oob' = d.oob
           /\ book_tickers' = Args(d.calls, "on_book_ticker")
    /\ walker' = "process_book_ticker"
    /\ ncalls' = 1
    /\ UNCHANGED <<raw, now, agg_trades, tickers>>

ApplyAggTradeVariants ==
    /\ ncalls = 0
    /\ \E past \in PastBytes :
       \E d \in {process_agg_trade(now, raw, past)} :
       \E sc \in {scalar_process_agg_trade(now, raw, past)} :
           /\ result' = [dispatcher |-> d, scalar |-> sc]
           /\ emitted' = d.calls
           /\ lookups' = d.lookups
           /\ oob' = d.oob
           /\ agg_trades' = Args(d.calls, "on_trade")
    /\ walker' = "process_agg_trade"
    /\ ncalls' = 1
    /\ UNCHANGED <<raw, now, book_tickers, tickers>>

NextVariants == ApplyBookTickerVariants \/ ApplyAggTradeVariants

SpecVariants == InitVariants /\ [][NextVariants]_vars

\* ------------------------------------------------------------------------
\* A parse call step by step.  The position of the call is kept in result:
\*   pc     where the call is: at the dispatch, at the '[' lookup, at the
\*          head of the array loop, at a field of a walker, at the m step,
\*          or returned (done: true, failed: false)
\*   row    the field the walker is at
\*   ptr    the cursor
\*   head   the cursor at the head of the last loop iteration
\*   vals   the values decoded so far
\*   steps  the steps taken
\* A step is the dispatch, the '[' lookup, one iteration head of the array
\* loop, one field of a walker, or the m step.
\* ------------------------------------------------------------------------
StepInputs == SessionInputs \cup ArrayInputs

WalkerRows(name) ==
    CASE name = "process_book_ticker" -> BookTickerFields
      [] name = "process_agg_trade" -> AggTradeFields
      [] name = "process_ticker" -> TickerFields
      [] name = "process_ticker_array" -> TickerFields

At(pc, row, ptr, head, vals, steps) ==
    [pc |-> pc, row |-> row, ptr |-> ptr, head |-> head, vals |-> vals,
     steps |-> steps]

InitSteps ==
    /\ raw \in StepInputs
    /\ now = 1
    /\ result = At("dispatch", 0, 0, 0, <<>>, 0)
    /\ walker = "none"
    /\ emitted = <<>>
    /\ lookups = 0
    /\ oob = FALSE
    /\ book_tickers = <<>>
    /\ agg_trades = <<>>
    /\ tickers = <<>>
    /\ ncalls = 0

\* the return of the call: the listener has the records delivered
Return(pc) == pc \in {"done", "failed"}

\* parse up to the call of a walker
StepDispatch ==
    /\ result.pc = "dispatch"
    /\ \E name \in {IF Len(raw) < MinSize THEN "none"
                     ELSE IF match_string(raw, PatternBookTicker, PatternLen)
                     THEN "process_book_ticker"
                     ELSE IF match_string(raw, PatternAggTrade, PatternLen)
                     THEN "process_agg_trade"
                     ELSE IF match_string(raw, Pattern24hrTicker, PatternLen)
                     THEN "process_ticker"
                     ELSE IF match_string(raw, PatternTickerArray, PatternLen)
                     THEN "process_ticker_array"
                     ELSE "none"} :
           /\ walker' = name
           /\ result' = At(IF name = "none" THEN "failed"
                           ELSE IF name = "process_ticker_array" THEN "open"
                           ELSE "field",
                           1, 0, 0, <<>>, result.steps + 1)
           /\ ncalls' = IF name = "none" THEN 1 ELSE 0
    /\ UNCHANGED <<raw, now, emitted, lookups, oob,
                   book_tickers, agg_trades, tickers>>

\* process_ticker_array up to its loop: "ptr = find_char(ptr, end, '[');
\* if (!ptr) return false; ptr++;"
StepOpen ==
    /\ result.pc = "open"
    /\ \E k \in {find_char(raw, 0, Len(raw), "[")} :
           /\ result' = IF k = NULL
                        THEN [result EXCEPT !.pc = "failed",
                                            !.steps = @ + 1]
                        ELSE [result EXCEPT !.pc = "loop", !.ptr = k + 1,
                                            !.steps = @ + 1]
           /\ ncalls' = IF k = NULL THEN 1 ELSE 0
    /\ lookups' = lookups + 1
    /\ UNCHANGED <<raw, now, walker, emitted, oob,
                   book_tickers, agg_trades, tickers>>

\* one iteration of the loop of process_ticker_array up to the call of
\* parse_single_ticker
StepLoop ==
    /\ result.pc = "loop"
    /\ \E q \in {SkipSeparators(raw, result.ptr, Len(raw))} :
           \E pc \in {IF ~(result.ptr < Len(raw)) THEN "done"
                       ELSE IF q >= Len(raw) \/ raw[q + 1] = "]" THEN "done"
                       ELSE IF raw[q + 1] # "{" THEN "failed"
                       ELSE "field"} :
               /\ result' = [result EXCEPT !.pc = pc, !.row = 1, !.ptr = q,
                                           !.head = result.ptr, !.vals = <<>>,
                                           !.steps = @ + 1]
               /\ ncalls' = IF Return(pc) THEN 1 ELSE 0
    /\ UNCHANGED <<raw, now, walker, emitted, lookups, oob,
                   book_tickers, agg_trades, tickers>>

\* what a walker does after its last field: the single-object walkers call
\* the listener and return, process_agg_trade goes on to the m key, and the
\* array loop calls the listener and goes round from "ptr + 1"
AfterFields(vals, t) ==
    CASE walker = "process_book_ticker" ->
             [pc |-> "done", ptr |-> t,
              calls |-> <<on_book_ticker(book_ticker_t(now, vals))>>]
      [] walker = "process_agg_trade" ->
             [pc |-> "maker", ptr |-> t, calls |-> <<>>]
      [] walker = "process_ticker" ->
             [pc |-> "done", ptr |-> t + 1,
              calls |-> <<on_ticker(ticker_t(now, vals))>>]
      [] walker = "process_ticker_array" ->
             [pc |-> "loop", ptr |-> t + 1,
              calls |-> <<on_ticker(ticker_t(now, vals))>>]

\* one field of a walker, row, from the position at: locate the key, skip,
\* locate the terminator (k, t), decode, advance; after the last field,
\* what the walker does then, vals being the values decoded with this
\* field.  Gives the position reached, the lookups
\* made and the listener calls made.
FieldOutcome(at, row, k, t, vals) ==
    IF t = NULL
    THEN [at |-> [at EXCEPT !.pc = "failed", !.steps = @ + 1],
          lookups |-> IF k = NULL THEN 1 ELSE 2, calls |-> <<>>]
    ELSE IF at.row < Len(WalkerRows(walker))
    THEN [at |-> [at EXCEPT !.row = @ + 1, !.ptr = t + row.advance,
                            !.vals = vals, !.steps = @ + 1],
          lookups |-> 2, calls |-> <<>>]
    ELSE [at |-> [at EXCEPT !.pc = AfterFields(vals, t + row.advance).pc,
                            !.ptr = AfterFields(vals, t + row.advance).ptr,
                            !.vals = vals, !.steps = @ + 1],
          lookups |-> 2, calls |-> AfterFields(vals, t + row.advance).calls]

\* one field of a walker
StepField ==
    /\ result.pc = "field"
    /\ \E past \in PastBytes :
       \E row \in {WalkerRows(walker)[result.row]} :
       \E k \in {find_char(raw, result.ptr, Len(raw), row.key)} :
       \E t \in {IF k = NULL THEN NULL
                  ELSE find_char(raw, k + row.skip, Len(raw), row.term)} :
       \E vals \in {IF t = NULL \/ row.kind = "none" THEN result.vals
                     ELSE (row.field :>
                              FieldValue(row.kind, raw, k + row.skip, t, past))
                          @@ result.vals} :
       \E f \in {FieldOutcome(result, row, k, t, vals)} :
           /\ result' = f.at
           /\ lookups' = lookups + f.lookups
           /\ ncalls' = IF Return(f.at.pc) THEN 1 ELSE 0
           /\ emitted' = emitted \o f.calls
           /\ book_tickers' = book_tickers \o Args(f.calls, "on_book_ticker")
           /\ tickers' = tickers \o Args(f.calls, "on_ticker")
    /\ UNCHANGED <<raw, now, walker, oob, agg_trades>>

\* the m step of process_agg_trade
StepMaker ==
    /\ result.pc = "maker"
    /\ \E past \in PastBytes :
       \E k \in {find_char(raw, result.ptr, Len(raw), "m")} :
           IF k = NULL
           THEN /\ result' = [result EXCEPT !.pc = "failed", !.steps = @ + 1]
                /\ UNCHANGED <<emitted, agg_trades, oob>>
           ELSE \E trade \in {agg_trade_t(now, result.vals,
                                  Deref(string_view(raw, 0, Len(raw), past),
                                        k + 3) = "t")} :
                /\ result' = [result EXCEPT !.pc = "done", !.ptr = k + 3,
                                            !.steps = @ + 1]
                /\ emitted' = <<on_trade(trade)>>
                /\ agg_trades' = agg_trades \o <<trade>>
                /\ oob' = (k + 3 >= Len(raw))
    /\ lookups' = lookups + 1
    /\ ncalls' = 1
    /\ UNCHANGED <<raw, now, walker, book_tickers, tickers>>

NextSteps == StepDispatch \/ StepOpen \/ StepLoop \/ StepField \/ StepMaker

SpecSteps == InitSteps /\ [][NextSteps]_vars

\* a call, once made, runs on: the program takes its next step
SpecStepsFair == SpecSteps /\ WF_vars(NextSteps)

\* ------------------------------------------------------------------------
\* Properties
\* ------------------------------------------------------------------------
\* the first 16 bytes of the buffer are those of the pattern
HasPrefix(buf, pattern) ==
    /\ Len(buf) >= PatternLen
    /\ \A i \in 1..PatternLen : buf[i] = pattern[i]

Called == ncalls > 0

\* the bytes a symbol view denotes in the buffer of the call
SymbolBytes(buf, symbol) == SubSeq(buf, symbol.off + 1, symbol.off + symbol.size)

Handlers(calls) == {calls[i].handler : i \in 1..Len(calls)}

BookCases ==
    {[v |-> v, msg |-> BookTickerMessage(BookTexts(v))] : v \in BookSamples}

AggCases ==
    {[v |-> v, msg |-> AggTradeMessage(AggTexts(v))] : v \in AggSamples}

TickerCases ==
    {[v |-> v, msg |-> TickerMessage(TickerTexts(v))] : v \in TickerSamples}

\* C1: whenever parse returns true on a bookTicker, aggTrade or 24hrTicker
\* message, exactly one listener call was made during the call, and it is
\* the handler of the message's type.
C1_OneHandlerCallPerRecord ==
    (Called /\ result) =>
        /\ HasPrefix(raw, PatternBookTicker) =>
               /\ Len(emitted) = 1
               /\ emitted[1].handler = "on_book_ticker"
        /\ HasPrefix(raw, PatternAggTrade) =>
               /\ Len(emitted) = 1
               /\ emitted[1].handler = "on_trade"
        /\ HasPrefix(raw, Pattern24hrTicker) =>
               /\ Len(emitted) = 1
               /\ emitted[1].handler = "on_ticker"

C1_Witness ==
    /\ Called /\ result
    /\ HasPrefix(raw, Pattern24hrTicker)
    /\ Len(emitted) = 1
    /\ tickers = <<emitted[1].arg>>

\* number of find_char lookups a single-object walker makes when none misses
TotalLookups(w) ==
    CASE w = "process_book_ticker" -> 16
      [] w = "process_agg_trade" -> 17
      [] w = "process_ticker" -> 34

SingleObjectWalkers ==
    {"process_book_ticker", "process_agg_trade", "process_ticker"}

\* C2: a single-object walker fails at its first find_char miss, before all
\* of its lookups are made, and on every failing return the listener has
\* not been called; it succeeds only after all of its lookups.
C2_AllOrNothing ==
    (Called /\ walker \in SingleObjectWalkers) =>
        /\ ~result => /\ emitted = <<>>
                      /\ book_tickers = <<>>
                      /\ agg_trades = <<>>
                      /\ tickers = <<>>
                      /\ lookups \in 1..TotalLookups(walker)
        /\ result => lookups = TotalLookups(walker)

C2_Witness ==
    /\ Called /\ ~result
    /\ walker = "process_ticker"
    /\ lookups = 20
    /\ emitted = <<>>

\* C3: every proper prefix of a well-formed bookTicker, aggTrade or
\* 24hrTicker message is rejected, with no listener call.
C3_TruncationRejected ==
    (Called /\ raw \in TruncatedInputs) => (~result /\ emitted = <<>>)

\* C4: a message with the skeleton of its type in which one field's value is
\* empty, or numeric with a non-digit byte, is rejected with no listener call.
C4_CorruptedFieldRejected ==
    (Called /\ raw \in CorruptedInputs) => (~result /\ emitted = <<>>)

MatchesNoPattern(buf) ==
    /\ ~HasPrefix(buf, PatternBookTicker)
    /\ ~HasPrefix(buf, PatternAggTrade)
    /\ ~HasPrefix(buf, Pattern24hrTicker)
    /\ ~HasPrefix(buf, PatternTickerArray)

\* C5: a message of at least 20 bytes whose leading bytes match none of the
\* four patterns is rejected, with no listener call.
C5_UnknownTypeRejected ==
    (Called /\ Len(raw) >= MinSize /\ MatchesNoPattern(raw)) =>
        /\ ~result
        /\ emitted = <<>>
        /\ book_tickers = <<>> /\ agg_trades = <<>> /\ tickers = <<>>

C5_Witness ==
    /\ Called
    /\ raw = PaddedEmptyArray
    /\ ~result
    /\ emitted = <<>>

\* C6: an input shorter than 20 bytes is rejected without any walker or
\* listener handler being called.
C6_MinimumLengthGuard ==
    (Called /\ Len(raw) < MinSize) =>
        /\ ~result
        /\ walker = "none"
        /\ lookups = 0
        /\ emitted = <<>>

C6_Witness ==
    /\ Called
    /\ Len(raw) = 19
    /\ HasPrefix(raw, PatternAggTrade)
    /\ ~result
    /\ walker = "none"

\* the walker and the handler of the pattern the buffer starts with
WalkerOf(buf) ==
    IF HasPrefix(buf, PatternBookTicker) THEN "process_book_ticker"
    ELSE IF HasPrefix(buf, PatternAggTrade) THEN "process_agg_trade"
    ELSE IF HasPrefix(buf, Pattern24hrTicker) THEN "process_ticker"
    ELSE IF HasPrefix(buf, PatternTickerArray) THEN "process_ticker_array"
    ELSE "none"

HandlerOf(w) ==
    CASE w = "process_book_ticker" -> {"on_book_ticker"}
      [] w = "process_agg_trade" -> {"on_trade"}
      [] w = "process_ticker" -> {"on_ticker"}
      [] w = "process_ticker_array" -> {"on_ticker"}
      [] OTHER -> {}

\* C7: each parse call runs the walker of the pattern its buffer starts
\* with and no other, makes only calls of that type's handler, and appends
\* the records to that type's listener collection in call order, leaving
\* the other collections as they were.
C7_DispatchRouting ==
    [][ncalls' = ncalls + 1 =>
        /\ Len(raw') >= MinSize => walker' = WalkerOf(raw')
        /\ Handlers(emitted') \subseteq HandlerOf(walker')
        /\ book_tickers' = book_tickers \o
              (IF walker' = "process_book_ticker"
               THEN [i \in 1..Len(emitted') |-> emitted'[i].arg] ELSE <<>>)
        /\ agg_trades' = agg_trades \o
              (IF walker' = "process_agg_trade"
               THEN [i \in 1..Len(emitted') |-> emitted'[i].arg] ELSE <<>>)
        /\ tickers' = tickers \o
              (IF walker' \in {"process_ticker", "process_ticker_array"}
               THEN [i \in 1..Len(emitted') |-> emitted'[i].arg] ELSE <<>>)
      ]_vars

C7_Witness ==
    /\ ncalls = 2
    /\ walker = "process_ticker_array"
    /\ Len(book_tickers) = 1
    /\ Len(tickers) = 2
    /\ agg_trades = <<>>

\* C8: every well-formed bookTicker message is decoded into one record whose
\* bid and ask prices and volumes are the values of b, B, a and A, whose
\* exchange_timestamp is the value of the last field E, and which is the
\* same whatever the value of the skipped field T.
C8_BookTickerDecode ==
    \A c \in BookCases :
        (Called /\ raw = c.msg) =>
            /\ result
            /\ Len(emitted) = 1
            /\ emitted[1].handler = "on_book_ticker"
            /\ LET ticker == emitted[1].arg
               IN  /\ ticker.time = now
                   /\ SymbolBytes(raw, ticker.symbol) = c.v.s
                   /\ ticker.bid.price = DecValue(c.v.b)
                   /\ ticker.bid.volume = DecValue(c.v.B)
                   /\ ticker.ask.price = DecValue(c.v.a)
                   /\ ticker.ask.volume = DecValue(c.v.A)
                   /\ ticker.exchange_timestamp = U64(c.v.E)
                   /\ ticker.bid.sequence = U64(c.v.u)
                   /\ ticker.ask.sequence = U64(c.v.u)

C8_Witness ==
    /\ Called /\ result
    /\ raw = BookTickerMessage(BookTexts(BookValues(3, 2)))
    /\ book_tickers # <<>>
    /\ book_tickers[1].exchange_timestamp = U64(BookValues(3, 1).E)
    /\ BookValues(3, 1).T # BookValues(3, 2).T

\* C9: every well-formed aggTrade message is decoded into one record whose
\* event_time, symbol, agg_trade_id, price, quantity, first_trade_id,
\* last_trade_id and trade_time are the values of E, s, a, p, q, f, l and T.
C9_AggTradeDecode ==
    \A c \in AggCases :
        (Called /\ raw = c.msg) =>
            /\ result
            /\ Len(emitted) = 1
            /\ emitted[1].handler = "on_trade"
            /\ LET trade == emitted[1].arg
               IN  /\ trade.event_time = U64(c.v.E)
                   /\ SymbolBytes(raw, trade.symbol) = c.v.s
                   /\ trade.agg_trade_id = U64(c.v.a)
                   /\ trade.price = DecValue(c.v.p)
                   /\ trade.quantity = DecValue(c.v.q)
                   /\ trade.first_trade_id = U64(c.v.f)
                   /\ trade.last_trade_id = U64(c.v.l)
                   /\ trade.trade_time = U64(c.v.T)

C9_Witness ==
    /\ Called /\ result
    /\ raw = AggTradeMessage(AggTexts(AggValues(2, FALSE)))
    /\ Len(agg_trades) = 1
    /\ agg_trades[1].agg_trade_id = U64(12345678)

\* C10: every well-formed 24hrTicker object is decoded into one record each
\* of whose 17 fields is the value of its own wire field, total_trades being
\* the value of n, which the closing brace ends.
C10_TickerDecode ==
    \A c \in TickerCases :
        (Called /\ raw = c.msg) =>
            /\ result
            /\ Len(emitted) = 1
            /\ emitted[1].handler = "on_ticker"
            /\ LET ticker == emitted[1].arg
               IN  /\ ticker.event_time = U64(c.v.E)
                   /\ SymbolBytes(raw, ticker.symbol) = c.v.s
                   /\ ticker.price_change = DecValue(c.v.p)
                   /\ ticker.price_change_percent = DecValue(c.v.P)
                   /\ ticker.weighted_avg_price = DecValue(c.v.w)
                   /\ ticker.last_price = DecValue(c.v.c)
                   /\ ticker.last_quantity = DecValue(c.v.Q)
                   /\ ticker.open_price = DecValue(c.v.o)
                   /\ ticker.high_price = DecValue(c.v.h)
                   /\ ticker.low_price = DecValue(c.v.l)
                   /\ ticker.total_traded_base_volume = DecValue(c.v.v)
                   /\ ticker.total_traded_quote_volume = DecValue(c.v.q)
                   /\ ticker.statistics_open_time = U64(c.v.O)
                   /\ ticker.statistics_close_time = U64(c.v.C)
                   /\ ticker.first_trade_id = U64(c.v.F)
                   /\ ticker.last_trade_id = U64(c.v.L)
                   /\ ticker.total_trades = U64(c.v.n)
                   /\ raw[Len(raw)] = "}"
                   /\ lookups = 34

C10_Witness ==
    /\ Called /\ result
    /\ raw = TickerMessage(TickerTexts(TickerValues(3)))
    /\ Len(tickers) = 1
    /\ tickers[1].total_trades = U64(TickerValues(3).n)
    /\ tickers[1].price_change # tickers[1].price_change_percent
    /\ tickers[1].total_traded_quote_volume # tickers[1].last_quantity

\* the record the single-object walker produces on an object in isolation
IsolatedTicker(obj, tnow) ==
    parse_single_ticker(obj, 0, Len(obj), tnow, "}").ticker

\* two ticker records agree: the symbols denote the same bytes, each in
\* its own buffer, and all other fields are equal
SameTicker(buf1, t1, buf2, t2) ==
    /\ SymbolBytes(buf1, t1.symbol) = SymbolBytes(buf2, t2.symbol)
    /\ [t1 EXCEPT !.symbol = <<>>] = [t2 EXCEPT !.symbol = <<>>]

\* the listener calls are on_ticker calls with the records of the objects
\* objs decoded in isolation, in the order of objs
DeliversInOrder(objs) ==
    /\ Len(emitted) = Len(objs)
    /\ \A i \in 1..Len(objs) :
           /\ emitted[i].handler = "on_ticker"
           /\ SameTicker(raw, emitted[i].arg,
                         objs[i], IsolatedTicker(objs[i], now))
    /\ tickers = [i \in 1..Len(emitted) |-> emitted[i].arg]

\* C11: process_ticker_array on an array of n >= 0 well-formed 24hrTicker
\* objects (n = 0 being []) returns true after exactly n on_ticker calls,
\* made in array order, the i-th with the record the single-object walker
\* produces on the i-th object alone.
C11_ArraySemantics ==
    \A c \in ArrayCases :
        (Called /\ raw = c.msg) => (result /\ DeliversInOrder(c.objs))

C11_Witness ==
    /\ Called /\ result
    /\ walker = "process_ticker_array"
    /\ Len(tickers) = 3
    /\ raw[2] = "\n"
    /\ tickers[1].event_time # tickers[2].event_time
    /\ tickers[2].event_time # tickers[3].event_time

\* C12: parse decodes the rolling-stats array in every shape of the
\* interface: [] gives true with no handler call, and an array with blanks
\* between '[' and the first '{' is decoded like the array without them.
C12_ParseArrayShapes ==
    \A c \in ShapedArrayCases :
        (Called /\ raw = c.msg) => (result /\ DeliversInOrder(c.objs))

\* the opening of an "s" value: the key, the colon and the opening quote
SymbolOpening == Key("s") \o <<"\"">>

\* C13: in every well-formed message of each type, for every symbol of 1
\* to MaxSymbolLen bytes, the symbol of the emitted record is the range of
\* the input buffer from right after the opening quote of the "s" value
\* to right before its closing quote: same bytes, same length, inside the
\* buffer.
C13_SymbolView ==
    \A c \in SymbolCases :
        (Called /\ raw = c.msg) =>
            /\ result
            /\ Len(emitted) = Len(c.syms)
            /\ \A i \in 1..Len(c.syms) :
                   LET symbol == emitted[i].arg.symbol
                   IN  /\ symbol.size = Len(c.syms[i])
                       /\ symbol.off >= 0
                       /\ symbol.off + symbol.size <= Len(raw)
                       /\ SymbolBytes(raw, symbol) = c.syms[i]
                       /\ SubSeq(raw, symbol.off - 4, symbol.off) = SymbolOpening
                       /\ raw[symbol.off + symbol.size + 1] = "\""

C13_Witness ==
    /\ Called /\ result
    /\ walker = "process_agg_trade"
    /\ Len(agg_trades) = 1
    /\ agg_trades[1].symbol.size = MaxSymbolLen
    /\ SymbolBytes(raw, agg_trades[1].symbol) = SymbolOfLen(MaxSymbolLen)

\* the text of the "u" field of a buffer that carries one: the bytes from
\* after the first "u": to the next comma
UpdateIdText(buf) ==
    LET k == find_char(buf, 0, Len(buf), "u")
        t == find_char(buf, k + 3, Len(buf), ",")
    IN  SubSeq(buf, k + 4, t)

\* the 64-bit value of a digit text, one digit at a time
RECURSIVE DecimalMod64(_, _)
DecimalMod64(ds, acc) ==
    IF ds = <<>> THEN acc
    ELSE DecimalMod64(Tail(ds), U64Shift1Add(acc, DigitVal(Head(ds))))

\* C14: in every record handed to on_book_ticker, bid.sequence equals
\* ask.sequence, and both are the value of the "u" field of the message.
C14_SequencesEqual ==
    \A i \in 1..Len(emitted) :
        emitted[i].handler = "on_book_ticker" =>
            /\ emitted[i].arg.bid.sequence = emitted[i].arg.ask.sequence
            /\ (\A j \in 1..Len(UpdateIdText(raw)) :
                    IsDigit(UpdateIdText(raw)[j]))
               => emitted[i].arg.bid.sequence
                      = DecimalMod64(UpdateIdText(raw), U64Zero)

C14_Witness ==
    /\ Called /\ result
    /\ Len(book_tickers) = 1
    /\ UpdateIdText(raw) = ToDigits(8822354)
    /\ book_tickers[1].bid.sequence = U64(8822354)
    /\ book_tickers[1].ask.sequence = U64(8822354)
    /\ book_tickers[1].exchange_timestamp # U64(8822354)

C16_Deterministic ==
    Called =>
        \A past \in PastBytes :
            /\ result = parse(now, raw, past).ok
            /\ emitted = parse(now, raw, past).calls

\* position r is what a search of [ptr, end) of buf for target is to
\* return: the first position holding target, or NULL when none does
FirstOccurrence(r, buf, ptr, end, target) ==
    IF r = NULL
    THEN \A q \in ptr..(end - 1) : buf[q + 1] # target
    ELSE /\ ptr <= r /\ r < end
         /\ buf[r + 1] = target
         /\ \A q \in ptr..(r - 1) : buf[q + 1] # target

\* C17: the scalar, AVX2, AVX-512 and NEON find_char each return the
\* position of the first byte equal to target in [ptr, end), for every
\* length of the range and every position of the match, and not-found
\* when there is none; the position is never outside [ptr, end).
C17_FindCharFirstMatch ==
    (Called /\ walker = "find_char") =>
        \A variant \in {"scalar", "avx2", "avx512", "neon"} :
            FirstOccurrence(result[variant],
                            raw.buf, raw.ptr, raw.end, raw.target)

C17_Witness ==
    /\ Called /\ walker = "find_char"
    /\ raw.end - raw.ptr = 64 + 32 + 16 + 3
    /\ result.avx512 = raw.ptr + 64 + 32 + 16 + 1
    /\ result.avx2 = result.avx512
    /\ result.neon = result.avx512
    /\ result.scalar = result.avx512

\* the value of a digit text modulo 2^64 when its first k groups of eight
\* digits are taken as batches and the rest digit by digit
RECURSIVE BatchesThenDigits(_, _, _)
BatchesThenDigits(ds, k, acc) ==
    IF k = 0 THEN DecimalMod64(ds, acc)
    ELSE BatchesThenDigits(
             SubSeq(ds, 9, Len(ds)), k - 1,
             U64Shift8Add(acc, DigitsValue(SubSeq(ds, 1, 4)) * 10000
                               + DigitsValue(SubSeq(ds, 5, 8))))

\* the text of 2^64 - 1 and its 64-bit value
MaxUint64Text ==
    <<"1", "8", "4", "4", "6", "7", "4", "4", "0", "7", "3", "7", "0", "9",
      "5", "5", "1", "6", "1", "5">>

MaxUint64 == <<Limb - 1, Limb - 1, Limb - 1, Limb - 1>>

MaxUint64PlusOneText == [MaxUint64Text EXCEPT ![20] = "6"]

\* C18: parse_uint64 on a text of ASCII digits returns the decimal value
\* of the text modulo 2^64, exact up to 18446744073709551615 and wrapped
\* beyond, and the same for every split of the text into 8-digit batches
\* and a digit-at-a-time remainder.
C18_Uint64Mod64 ==
    (Called /\ walker = "parse_uint64") =>
        /\ \A k \in 0..(Len(raw) \div 8) :
               result = BatchesThenDigits(raw, k, U64Zero)
        /\ raw = MaxUint64Text => result = MaxUint64
        /\ raw = MaxUint64PlusOneText => result = U64Zero

C18_Witness ==
    /\ Called /\ walker = "parse_uint64"
    /\ raw = MaxUint64Text \o <<"9", "0", "2", "8", "3">>
    /\ result = BatchesThenDigits(raw, 3, U64Zero)
    /\ result # DecimalMod64(MaxUint64Text, U64Zero)

\* the parts of a decimal text: its sign character, the digits before the
\* point and the digits after it
SignLen(txt) == IF txt[1] = "-" \/ txt[1] = "+" THEN 1 ELSE 0

PointAt(txt) ==
    IF \E i \in 1..Len(txt) : txt[i] = "."
    THEN CHOOSE i \in 1..Len(txt) : txt[i] = "."
    ELSE Len(txt) + 1

IntegerDigitsOf(txt) == SubSeq(txt, SignLen(txt) + 1, PointAt(txt) - 1)

FractionDigitsOf(txt) == SubSeq(txt, PointAt(txt) + 1, Len(txt))

Zeros(n) == [i \in 1..n |-> "0"]

\* a <= b for two digit texts of the same length read as numbers
RECURSIVE DigitsLeq(_, _)
DigitsLeq(a, b) ==
    IF a = <<>> THEN TRUE
    ELSE IF DigitVal(Head(a)) # DigitVal(Head(b))
         THEN DigitVal(Head(a)) < DigitVal(Head(b))
         ELSE DigitsLeq(Tail(a), Tail(b))

\* a <= b for two digit texts read as numbers of any size
NumberLeq(a, b) ==
    IF Len(a) <= Len(b)
    THEN DigitsLeq(Zeros(Len(b) - Len(a)) \o a, b)
    ELSE DigitsLeq(a, Zeros(Len(a) - Len(b)) \o b)

\* The result holds the sign and the integer digits of the text exactly and
\* the first fractional_digits digits of its fraction; what it leaves out is
\* the number the remaining fraction digits spell, in units of
\* 10^-Len(fraction).  That is within 1e-8 of the text's value, relatively,
\* when 10^8 times it is at most the number the integer and fraction digits
\* spell together in the same units.
WithinRelative1e8(txt, r) ==
    /\ ~r.fallback
    /\ r.negative = (txt[1] = "-")
    /\ r.integer_part = DecimalMod64(IntegerDigitsOf(txt), U64Zero)
    /\ r.fractional_digits <= Len(FractionDigitsOf(txt))
    /\ r.fractional_part =
           DecimalMod64(SubSeq(FractionDigitsOf(txt), 1, r.fractional_digits),
                        U64Zero)
    /\ NumberLeq(SubSeq(FractionDigitsOf(txt), r.fractional_digits + 1,
                        Len(FractionDigitsOf(txt))) \o Zeros(8),
                 IntegerDigitsOf(txt) \o FractionDigitsOf(txt))

\* C19: for every text of the form optional sign, 1 to 10 integer digits,
\* optionally a point and 1 to 18 fractional digits, the value parse_float
\* computes from its sign, integer accumulator, fractional accumulator and
\* fractional digit count is within 1e-8 relative error of the exact
\* decimal value of the text.
C19_RelativeAccuracy ==
    (/\ Called /\ walker = "parse_float"
     /\ Len(IntegerDigitsOf(raw)) \in 1..10
     /\ Len(FractionDigitsOf(raw)) <= 18) =>
        WithinRelative1e8(raw, result)

\* C20: for every text with an optional sign, 1 to 16 integer digits and an
\* optional fraction of at most 8 digits, parse_float returns
\* integer_part + fractional_part / 10^fractional_digits with the sign
\* applied, integer_part being the exact value of the integer digits,
\* fractional_part the exact value of the fraction digits and
\* fractional_digits their number, negated iff the text starts with '-'.
C20_FloatComposition ==
    (/\ Called /\ walker = "parse_float"
     /\ Len(IntegerDigitsOf(raw)) \in 1..16
     /\ Len(FractionDigitsOf(raw)) <= 8) =>
        /\ ~result.fallback
        /\ result.negative <=> raw[1] = "-"
        /\ result.integer_part = DecimalMod64(IntegerDigitsOf(raw), U64Zero)
        /\ result.fractional_part = DecimalMod64(FractionDigitsOf(raw), U64Zero)
        /\ result.fractional_digits = Len(FractionDigitsOf(raw))

\* -9999999999999999.99999999 went through two integer batches and the
\* fraction batch
C20_Witness ==
    /\ Called /\ walker = "parse_float"
    /\ raw[1] = "-"
    /\ IntegerDigitsOf(raw) = [i \in 1..16 |-> "9"]
    /\ FractionDigitsOf(raw) = [i \in 1..8 |-> "9"]
    /\ result.negative
    /\ result.integer_part = DecimalMod64(IntegerDigitsOf(raw), U64Zero)
    /\ result.fractional_part = U64(99999999)
    /\ result.fractional_digits = 8

\* C21: process_ticker_array returns true only when its loop stopped on a
\* ']' byte, and returns false wherever an element or the terminator was
\* expected and something else came: a byte other than '{' or ']', or the
\* end of the input before a ']' was seen.
C21_ArrayTerminalOutcomes ==
    (Called /\ walker = "process_ticker_array") =>
        /\ result => \E i \in 1..Len(raw) : raw[i] = "]"
        /\ \A c \in BrokenArrayCases : raw = c.msg => ~result
        /\ \A c \in OpenArrayCases : raw = c.msg => ~result

\* the width of a batch of parse_float
BatchDigits == 8

\* C22 as stated: parse_float hands the whole text to the standard
\* conversion exactly when the integer part exceeds 10 batches of 8 digits,
\* and uses the fast integer accumulation for every integer part of at most
\* 10 full batches.
C22_FallbackBeyondTenBatches ==
    (Called /\ walker = "parse_float") =>
        (result.fallback <=>
            Len(IntegerDigitsOf(raw)) > 10 * BatchDigits)

\* C22 amended: parse_float hands the whole text to the standard conversion
\* exactly when the integer part has a third full batch of 8 digits (24 or
\* more digits); for every integer part of at most 2 full batches (up to 23
\* digits) the fast integer accumulation is used.
C22_FallbackAtThirdBatch ==
    (Called /\ walker = "parse_float") =>
        /\ result.fallback <=> Len(IntegerDigitsOf(raw)) >= 3 * BatchDigits
        /\ result.fallback => result.text = raw
        /\ ~result.fallback =>
               result.integer_part = DecimalMod64(IntegerDigitsOf(raw), U64Zero)

\* a signed text of 24 integer digits and a fraction went to the standard
\* conversion whole
C22_Witness ==
    /\ Called /\ walker = "parse_float"
    /\ raw[1] = "-"
    /\ Len(IntegerDigitsOf(raw)) = 3 * BatchDigits
    /\ Len(FractionDigitsOf(raw)) = 9
    /\ result.fallback
    /\ result.text = raw

\* x * 10^k in 64 bits
RECURSIVE U64Scale10(_, _)
U64Scale10(x, k) == IF k = 0 THEN x ELSE U64Scale10(U64MulAdd(x, 10, 0), k - 1)

\* the accumulators a purely digit-at-a-time run over the text gives: the
\* integer digits after the sign one by one, then, after a point, the
\* fraction digits one by one
DigitAtATime(txt) ==
    LET str == string_view(txt, 0, Len(txt), "}")
        it == IntegerTail(str, SignLen(txt), Len(txt), U64Zero, 0)
        fr == IF it.p < Len(txt) /\ txt[it.p + 1] = "."
              THEN FractionTail(str, it.p + 1, Len(txt), U64Zero, 0)
              ELSE [fractional_part |-> U64Zero, fractional_digits |-> 0]
    IN  [integer_part |-> it.integer_part,
         fractional_part |-> fr.fractional_part,
         fractional_digits |-> fr.fractional_digits]

\* two results denote the same value: equal integer parts, and fractions
\* equal once scaled to the same number of digits
SameValue(r, d) ==
    /\ r.integer_part = d.integer_part
    /\ IF r.fractional_digits <= d.fractional_digits
       THEN U64Scale10(r.fractional_part,
                       d.fractional_digits - r.fractional_digits)
                = d.fractional_part
       ELSE U64Scale10(d.fractional_part,
                       r.fractional_digits - d.fractional_digits)
                = r.fractional_part

\* C23: the 8-digit batching of parse_float is not semantic: for every
\* text it accepts on the fast path, the integer and fractional
\* accumulators and the fractional digit count it obtains denote the value
\* that a purely digit-at-a-time accumulation of the same text produces,
\* also when the fraction has more than 8 digits.
C23_BatchingNotSemantic ==
    (Called /\ walker = "parse_float" /\ ~result.fallback) =>
        SameValue(result, DigitAtATime(raw))

\* C24: in process_agg_trade one byte decides is_buyer_maker: it is true
\* iff the byte three positions after the m key is 't', false for any
\* other byte there, and whatever stands in the place of the boolean
\* literal, the record is emitted with its other fields and the call
\* returns true.
C24_MakerByOneByte ==
    \A c \in MakerCases :
        (Called /\ raw = c.msg) =>
            /\ result
            /\ Len(emitted) = 1
            /\ emitted[1].handler = "on_trade"
            /\ LET trade == emitted[1].arg
               IN  /\ trade.is_buyer_maker <=> raw[c.at + 1] = "t"
                   /\ trade.event_time = U64(c.v.E)
                   /\ SymbolBytes(raw, trade.symbol) = c.v.s
                   /\ trade.agg_trade_id = U64(c.v.a)
                   /\ trade.price = DecValue(c.v.p)
                   /\ trade.quantity = DecValue(c.v.q)
                   /\ trade.first_trade_id = U64(c.v.f)
                   /\ trade.last_trade_id = U64(c.v.l)
                   /\ trade.trade_time = U64(c.v.T)

\* "m":talse gave a record with is_buyer_maker set
C24_Witness ==
    /\ Called /\ result
    /\ \E c \in MakerCases :
           /\ raw = c.msg
           /\ c.lit = <<"t", "a", "l", "s", "e">>
           /\ raw[c.at + 1] = "t"
    /\ Len(agg_trades) = 1
    /\ agg_trades[1].is_buyer_maker

\* C25: parse checks the length before every literal comparison: each
\* match_string call it makes compares exactly 16 bytes, all of them input
\* bytes at offsets below raw.size(), and a call returns true iff all the
\* compared bytes equal the pattern's; the walker parse hands the buffer to
\* is the one of the pattern that matched.
C25_MatchWithinInput ==
    Called =>
        \A past \in PastBytes :
            LET calls == ParseMatchCalls(raw, past)
            IN  /\ \A i \in 1..Len(calls) :
                       /\ calls[i].len = 16
                       /\ \A o \in MatchLoads(calls[i].len) :
                              calls[i].ptr + o < Len(raw)
                       /\ calls[i].matched <=>
                              \A j \in 1..calls[i].len :
                                  raw[calls[i].ptr + j] = calls[i].pattern[j]
                       /\ calls[i].matched <=>
                              match_string(raw, calls[i].pattern, calls[i].len)
                /\ walker # "none" <=>
                       (calls # <<>> /\ calls[Len(calls)].matched)
                /\ Len(raw) < 16 => calls = <<>>

\* a buffer of exactly 20 bytes went through all four comparisons, and none
\* matched
C25_Witness ==
    /\ Called /\ ~result /\ walker = "none"
    /\ Len(raw) = 20
    /\ Len(ParseMatchCalls(raw, "}")) = 4
    /\ ~ParseMatchCalls(raw, "}")[4].matched

\* C26: on success parse_single_ticker returns the position right after
\* the '}' that ended the total-trade-count field, a position strictly
\* greater than the one it was started at; on failure it returns the null
\* sentinel.  It succeeds on an element that lies whole before the end it
\* is given and fails on one the end cuts.
C26_ReturnsPastBrace ==
    (Called /\ walker = "parse_single_ticker") =>
        IF raw.ptr + raw.size <= raw.end
        THEN /\ result.ptr = raw.ptr + raw.size
             /\ result.ptr > raw.ptr
             /\ raw.buf[(result.ptr - 1) + 1] = "}"
             /\ result.ticker.total_trades = U64(raw.v.n)
             /\ \A i \in raw.ptr..(result.ptr - 2) : raw.buf[i + 1] # "}"
        ELSE result.ptr = NULL

\* the second element of a three-element array, separated by line ends
C26_Witness ==
    /\ Called /\ walker = "parse_single_ticker"
    /\ raw.buf[2] = "\n"
    /\ raw.ptr > raw.size
    /\ raw.end = Len(raw.buf)
    /\ raw.end > raw.ptr + 2 * raw.size
    /\ result.ptr = raw.ptr + raw.size
    /\ raw.buf[result.ptr + 1] = ","

\* C27: for every input buffer, well-formed, truncated or damaged, every
\* byte the walkers read lies at an offset inside [0, raw.size()): a key
\* skip of 3 or 4 bytes that lands on or beyond the end of the buffer
\* leads to a rejection, never to a read.
C27_ReadsInsideBuffer ==
    Called => ~oob

\* a returned step-by-step call has done what parse does in one piece
StepsAgreeWithParse ==
    (walker # "find_char" /\ Return(result.pc)) =>
        \E past \in PastBytes :
            /\ parse(now, raw, past).ok = (result.pc = "done")
            /\ parse(now, raw, past).calls = emitted
            /\ parse(now, raw, past).lookups = lookups
            /\ parse(now, raw, past).walker = walker

\* C28: every parse call returns, on every input: no step of a walker
\* moves the cursor backwards, each iteration of the array loop that does
\* not leave the loop ends with the cursor strictly beyond where the
\* iteration began, and the steps taken and the find_char lookups made
\* never exceed the length of the input (plus the dispatch).
C28_Terminates ==
    /\ <>Return(result.pc)
    /\ [][result'.ptr >= result.ptr]_vars
    /\ [][(result.pc = "field" /\ result'.pc = "loop") =>
              result'.ptr > result.head]_vars
    /\ [](result.steps <= Len(raw) + 1 /\ lookups <= Len(raw))

\* an array call returned after three elements, the loop head reached four
\* times
C28_Witness ==
    /\ result.pc = "done"
    /\ walker = "process_ticker_array"
    /\ Len(emitted) = 3
    /\ result.steps = 2 + 3 * (1 + Len(TickerFields)) + 1
    /\ result.head > 0

\* what a walker gave on the buffer raw: its success flag and the records
\* it delivered, each symbol view read as the bytes it denotes
Outcome(r) ==
    [ok |-> r.ok,
     records |-> [i \in 1..Len(r.calls) |->
                     [r.calls[i].arg EXCEPT !.symbol = SymbolBytes(raw, @)]]]

\* C29: on every input, avx2::process_book_ticker and the NEON
\* process_book_ticker give the success flag and the complete record
\* (symbol included) of binance_future_parser_t::process_book_ticker, and
\* scalar::process_agg_trade gives the success flag and the record of
\* binance_future_parser_t::process_agg_trade.
C29_VariantsAgree ==
    /\ (Called /\ walker = "process_book_ticker") =>
           /\ Outcome(result.avx2) = Outcome(result.dispatcher)
           /\ Outcome(result.neon) = Outcome(result.dispatcher)
    /\ (Called /\ walker = "process_agg_trade") =>
           Outcome(result.scalar) = Outcome(result.dispatcher)

\* r is what the claim gives for the call: the first position of
\* [ptr, end) holding one of the targets with the index of the target
\* found there, or not-found
FirstOfSet(r, in) ==
    IF r.ptr = NULL
    THEN \A p \in in.ptr..(in.end - 1) :
             \A i \in 1..in.num_targets : in.buf[p + 1] # in.targets[i]
    ELSE /\ r.ptr \in in.ptr..(in.end - 1)
         /\ r.which_char \in 0..(in.num_targets - 1)
         /\ in.buf[r.ptr + 1] = in.targets[r.which_char + 1]
         /\ \A p \in in.ptr..(r.ptr - 1) :
                \A i \in 1..in.num_targets : in.buf[p + 1] # in.targets[i]

\* C30: find_char_set returns the first position of [ptr, end) holding any
\* of the targets and sets which to the index of the target found there,
\* or returns not-found when none occurs; the AVX2 and NEON variants give
\* the position and index of the scalar variant.
C30_FindCharSetFirstMatch ==
    (Called /\ walker = "find_char_set") =>
        /\ FirstOfSet(result.scalar, raw)
        /\ result.avx2 = result.scalar
        /\ result.neon = result.scalar

====
